---- MODULE Spec2Model ----
(***************************************************************************)
(* The agent framework of src/src/agents: BaseAgent's think/execute/run    *)
(* control loop, its memory and reset operations, the dispatch tables of   *)
(* the five concrete agents and the Orchestrator's workflows.              *)
(*                                                                         *)
(* Python values are encoded as follows.  A mapping (dict) is a function   *)
(* whose domain is a set of strings; d.get(k, default) is Get(d, k,        *)
(* default).  A list is a sequence.  A str that the code reads is the      *)
(* sequence of its characters; the fixed fragments of an output template,  *)
(* which nothing reads again, stand as one element each.  Names and tags   *)
(* (dictionary keys, action names, request types, statuses) are strings.   *)
(* None is PyNone where a mapping is expected and NoneStr where a str is,  *)
(* and NotAMapping is a value of another type given where a mapping is     *)
(* expected: using any of them as a mapping or as a str faults, as the     *)
(* attribute lookup does in Python.  Lists are always lists.  Rates (0.05, *)
(* 0.7) are in percent.                                                    *)
(***************************************************************************)
EXTENDS Integers, Sequences, FiniteSets, TLC

\* state, memory, actions_history: the fields of each agent instance;
\* optimization_history: the OptimizationAgent's; llm_client: whether the
\* instances were constructed with a text-generation client; target: the
\* instance the caller holds and calls; stack: the calls of run and execute
\* in progress, innermost last; ret: what the caller's last call gave back;
\* calls: the number of calls the caller has made; suspended: the stacks of
\* the other coroutines of the event loop, each waiting at an await.
VARIABLES state, memory, actions_history, optimization_history, llm_client,
          target, suspended, stack, ret, calls

vars == <<state, memory, actions_history, optimization_history, llm_client,
          target, suspended, stack, ret, calls>>

(* ---------------------------------------------------------------- bounds *)

\* Calls a caller makes that leave a trace in an agent (run, add_to_memory,
\* execute); reset and get_memory_context are not counted.
MaxCalls == 2
\* Most positions in an experience list given to _analyze_experience alone.
MaxPositions == 3
\* Largest limit passed to get_memory_context.
MaxLimit == 2
\* Most words in a role string given to PortfolioAgent._categorize_role.
MaxWords == 2

(* ------------------------------------------------------- value encoding *)

EmptyMap == [k \in {} |-> k]
PyNone == [py_type |-> "NoneType"]
NotAMapping == [py_type |-> "str"]
UnhashableTag == "<unhashable list>"

NoneStr == <<"<None>">>

IsMapping(v) == "py_type" \notin DOMAIN v
IsStr(v) == v # NoneStr
Get(m, k, d) == IF k \in DOMAIN m THEN m[k] ELSE d

\* An element of a skills list is a mapping or a str; the str is boxed so that
\* isinstance(skill, dict) can be decided.
StrSkill(chars) == [py_type |-> "str", chars |-> chars]
IsSkillName(s) == "py_type" \in DOMAIN s
\* f"{v}" of a value that may be None
Fmt(v) == IF v = NoneStr THEN <<"N", "o", "n", "e">> ELSE v

Bool(b) == IF b THEN 1 ELSE 0
Min(a, b) == IF a <= b THEN a ELSE b
Max(a, b) == IF a >= b THEN a ELSE b

RECURSIVE SumSeq(_)
SumSeq(s) == IF s = <<>> THEN 0 ELSE Head(s) + SumSeq(Tail(s))

Count(s, P(_)) == Len(SelectSeq(s, P))

\* s[:n]
Take(s, n) == SubSeq(s, 1, Min(n, Len(s)))

(* str operations *)
\* The character U+2022.
Bullet == "<U+2022>"
Upper == <<"A", "B", "C", "D", "E", "F", "G", "H", "I", "J", "K", "L", "M", "N", "O", "P", "Q", "R", "S", "T", "U", "V", "W", "X", "Y", "Z">>
LowerAlpha == <<"a", "b", "c", "d", "e", "f", "g", "h", "i", "j", "k", "l", "m", "n", "o", "p", "q", "r", "s", "t", "u", "v", "w", "x", "y", "z">>
LowerChar(c) ==
    IF \E i \in 1..26 : Upper[i] = c
      THEN LowerAlpha[CHOOSE i \in 1..26 : Upper[i] = c] ELSE c
lower(s) == [i \in 1..Len(s) |-> LowerChar(s[i])]
Contains(s, kw) == \E i \in 0..(Len(s) - Len(kw)) : SubSeq(s, i + 1, i + Len(kw)) = kw
ContainsAny(s, kws) == \E j \in 1..Len(kws) : Contains(s, kws[j])
IsDigit(c) == c \in {"0", "1", "2", "3", "4", "5", "6", "7", "8", "9"}
HasDigit(s) == \E i \in 1..Len(s) : IsDigit(s[i])
IsSpace(c) == c \in {" ", "\n", "\t"}
\* len(s.split())
WordCount(s) ==
    Cardinality({i \in 1..Len(s) : ~IsSpace(s[i]) /\ (i = 1 \/ IsSpace(s[i - 1]))})
StartsWith(s, p) == Len(s) >= Len(p) /\ SubSeq(s, 1, Len(p)) = p
Replace(s, c, d) == [i \in 1..Len(s) |-> IF s[i] = c THEN d ELSE s[i]]
RECURSIVE Join(_, _)
Join(sep, parts) ==
    IF parts = <<>> THEN <<>>
    ELSE IF Len(parts) = 1 THEN parts[1]
    ELSE parts[1] \o sep \o Join(sep, Tail(parts))
\* str(n) for n >= 0
RECURSIVE Decimal(_)
Decimal(n) ==
    LET d == <<"0", "1", "2", "3", "4", "5", "6", "7", "8", "9">>[(n % 10) + 1]
    IN  IF n < 10 THEN <<d>> ELSE Decimal(n \div 10) \o <<d>>

\* The outcome of evaluating a Python call: a returned value, a raised
\* fault, a suspension on the text-generation call, or a call of a
\* sub-agent's run.
Ok(v) == [kind |-> "return", value |-> v]
Fault(m) == [kind |-> "fault", msg |-> m]
AwaitLlm(prompt, local) == [kind |-> "await_llm", prompt |-> prompt, local |-> local]
CallRun(agent, input_data, step) ==
    [kind |-> "call_run", agent |-> agent, input_data |-> input_data, step |-> step]

NoGet == "object has no attribute 'get'"
NoLower == "object has no attribute 'lower'"
NoReplace == "'NoneType' object has no attribute 'replace'"
IndexError == "list index out of range"
Unhashable == "unhashable type: 'list'"
GenerationFailed == "generation failed"

(* ----------------------------------------------------------- base types *)

AgentState == {"idle", "thinking", "executing", "waiting", "completed", "error"}

AgentMessage(role, content) == [role |-> role, content |-> content, metadata |-> EmptyMap]

AgentAction(name, input_data) ==
    [name |-> name, input_data |-> input_data, output_data |-> PyNone,
     status |-> "pending", error |-> "None"]

\* The agent instances: an Orchestrator, the four sub-agents it constructs,
\* and one further subclass of ProfileAnalyzerAgent that overrides the
\* abstract think and inherits execute.
SubAgents == {"ProfileAnalyzer", "ContentGenerator", "PortfolioBuilder", "OptimizationAgent"}
ConcreteAgents == SubAgents \cup {"Orchestrator"}
Agents == ConcreteAgents \cup {"Subclass"}

\* self.name, set by each constructor.
AgentName(a) == IF a = "Subclass" THEN "ProfileAnalyzer" ELSE a

\* return {"error": f"Unknown action: {action.name}"}
UnknownAction(name) == [error |-> "Unknown action: " \o name]

(* ------------------------------------------------ ProfileAnalyzerAgent *)

\* A variant of think that takes an analysis_type it does not know for full.
ProfileAnalyzerAgent_think_unknown_is_full(input_data) ==
    IF ~IsMapping(input_data) THEN Fault(NoGet)
    ELSE LET profile_data == Get(input_data, "profile_data", EmptyMap)
             analysis_type == Get(input_data, "analysis_type", "full")
             Wanted(s) == analysis_type \in {"full", s}
             known == SelectSeq(<<"headline", "about", "experience", "skills">>, Wanted)
             chosen == IF known = <<>> THEN <<"headline", "about", "experience", "skills">>
                       ELSE known
         IN  IF chosen # <<>> /\ ~IsMapping(profile_data) THEN Fault(NoGet)
             ELSE Ok([actions |->
                        [i \in 1..Len(chosen) |->
                           [name |-> "analyze_" \o chosen[i],
                            input |-> (chosen[i] :> Get(profile_data, chosen[i], <<>>))]],
                      strategy |-> "comprehensive_analysis"])

ProfileAnalyzerAgent_think(input_data) ==
    IF ~IsMapping(input_data) THEN Fault(NoGet)
    ELSE LET profile_data == Get(input_data, "profile_data", EmptyMap)
             analysis_type == Get(input_data, "analysis_type", "full")
             Wanted(s) == analysis_type \in {"full", s}
             chosen == SelectSeq(<<"headline", "about", "experience", "skills">>, Wanted)
         IN  IF chosen # <<>> /\ ~IsMapping(profile_data) THEN Fault(NoGet)
             ELSE Ok([actions |->
                        [i \in 1..Len(chosen) |->
                           [name |-> "analyze_" \o chosen[i],
                            input |-> (chosen[i] :> Get(profile_data, chosen[i], <<>>))]],
                      strategy |-> "comprehensive_analysis"])

ValuePropositionKeywords == <<<<"h", "e", "l", "p", "i", "n", "g">>, <<"d", "r", "i", "v", "i", "n", "g">>, <<"b", "u", "i", "l", "d", "i", "n", "g">>, <<"l", "e", "a", "d", "i", "n", "g">>>>
CallToActionKeywords == <<<<"r", "e", "a", "c", "h", " ", "o", "u", "t">>, <<"c", "o", "n", "n", "e", "c", "t">>, <<"c", "o", "n", "t", "a", "c", "t">>, <<"e", "m", "a", "i", "l">>>>
AchievementKeywords == <<<<"a", "c", "h", "i", "e", "v", "e", "d">>, <<"i", "n", "c", "r", "e", "a", "s", "e", "d">>, <<"r", "e", "d", "u", "c", "e", "d">>, <<"l", "e", "d">>>>

_get_headline_recommendations(patterns) ==
    (IF ~patterns.has_value_proposition
       THEN <<"Add a value proposition to your headline">> ELSE <<>>)
    \o (IF ~patterns.has_metrics THEN <<"Include quantifiable achievements">> ELSE <<>>)

_analyze_headline(data) ==
    LET headline == Get(data, "headline", <<>>)
    IN  IF ~IsStr(headline) THEN Fault(NoLower)
        ELSE LET patterns == [has_title |-> headline # <<>>,
                              word_count |-> WordCount(headline),
                              has_value_proposition |->
                                  ContainsAny(lower(headline), ValuePropositionKeywords),
                              has_metrics |-> HasDigit(headline),
                              uses_separator |->
                                  Contains(headline, <<"|">>) \/ Contains(headline, <<Bullet>>)]
                 score == Bool(patterns.has_title) * 20
                          + Min(patterns.word_count * 5, 25)
                          + Bool(patterns.has_value_proposition) * 25
                          + Bool(patterns.has_metrics) * 15
                          + Bool(patterns.uses_separator) * 15
             IN  Ok([section |-> "headline", patterns |-> patterns,
                     score |-> Min(score, 100),
                     recommendations |-> _get_headline_recommendations(patterns)])

_calculate_about_score(patterns) ==
    Min(Bool(patterns.has_content) * 30
        + Min(patterns.word_count \div 10, 30)
        + Bool(patterns.has_call_to_action) * 20
        + Bool(patterns.has_achievements) * 20, 100)

_get_about_recommendations(patterns) ==
    (IF patterns.word_count < 100
       THEN <<"Expand your about section (aim for 200+ words)">> ELSE <<>>)
    \o (IF ~patterns.has_call_to_action THEN <<"Add a call-to-action at the end">> ELSE <<>>)

_analyze_about(data) ==
    LET about == Get(data, "about", <<>>)
    IN  IF ~IsStr(about) THEN Fault(NoLower)
        ELSE LET patterns == [has_content |-> about # <<>>,
                              word_count |-> WordCount(about),
                              has_call_to_action |->
                                  ContainsAny(lower(about), CallToActionKeywords),
                              has_achievements |->
                                  ContainsAny(lower(about), AchievementKeywords),
                              uses_first_person |-> StartsWith(lower(about), <<"i", " ">>)]
             IN  Ok([section |-> "about", patterns |-> patterns,
                     score |-> _calculate_about_score(patterns),
                     recommendations |-> _get_about_recommendations(patterns)])

\* sum(bullets) / len(bullets), kept as the pair that int(avg * 10) and
\* avg < 3 read: the sum and the count.
_calculate_avg_bullets(experience) ==
    [sum |-> SumSeq([i \in 1..Len(experience) |-> Len(Get(experience[i], "bullets", <<>>))]),
     n |-> Len(experience)]

_check_experience_metrics(experience) ==
    LET Metric(e) == HasDigit(Get(e, "description", <<>>))
    IN  Count(experience, Metric)

\* A variant of _calculate_experience_score without the outer min.
_calculate_experience_score_unclamped(patterns) ==
    LET avg == patterns.avg_bullets
        avg10 == IF avg.n = 0 THEN 0 ELSE (avg.sum * 10) \div avg.n
    IN  Min(patterns.total_positions * 15, 30)
        + patterns.has_descriptions * 10
        + Min(avg10, 20)
        + patterns.has_metrics * 10

_calculate_experience_score(patterns) ==
    LET avg == patterns.avg_bullets
        avg10 == IF avg.n = 0 THEN 0 ELSE (avg.sum * 10) \div avg.n
    IN  Min(Min(patterns.total_positions * 15, 30)
            + patterns.has_descriptions * 10
            + Min(avg10, 20)
            + patterns.has_metrics * 10, 100)

_get_experience_recommendations(patterns) ==
    (IF patterns.avg_bullets.n = 0 \/ patterns.avg_bullets.sum < 3 * patterns.avg_bullets.n
       THEN <<"Add more bullet points to each experience">> ELSE <<>>)
    \o (IF patterns.has_metrics < patterns.total_positions \div 2
          THEN <<"Include more quantifiable metrics">> ELSE <<>>)

_analyze_experience(data) ==
    LET experience == Get(data, "experience", <<>>)
        Bad(e) == ~IsMapping(e)
        Described(e) == Get(e, "description", <<>>) # <<>>
    IN  IF Count(experience, Bad) > 0 THEN Fault(NoGet)
        ELSE LET patterns == [total_positions |-> Len(experience),
                              has_descriptions |-> Count(experience, Described),
                              avg_bullets |-> _calculate_avg_bullets(experience),
                              has_metrics |-> _check_experience_metrics(experience)]
             IN  Ok([section |-> "experience", patterns |-> patterns,
                     score |-> _calculate_experience_score(patterns),
                     recommendations |-> _get_experience_recommendations(patterns)])

TechnicalKeywords == <<<<"p", "y", "t", "h", "o", "n">>, <<"j", "a", "v", "a">>, <<"s", "q", "l">>, <<"a", "w", "s">>>>
SoftKeywords == <<<<"l", "e", "a", "d", "e", "r", "s", "h", "i", "p">>, <<"c", "o", "m", "m", "u", "n", "i", "c", "a", "t", "i", "o", "n">>>>

ProfileAnalyzerAgent_categorize_skills(skills) ==
    LET Name(s) == lower(IF IsSkillName(s) THEN s.chars ELSE Get(s, "name", <<>>))
        Technical(s) == ContainsAny(Name(s), TechnicalKeywords)
        Soft(s) == ~Technical(s) /\ ContainsAny(Name(s), SoftKeywords)
        Other(s) == ~Technical(s) /\ ~Soft(s)
    IN  [technical |-> Count(skills, Technical), soft |-> Count(skills, Soft),
         tools |-> 0, other |-> Count(skills, Other)]

_calculate_skills_score(patterns) ==
    Min(Min(patterns.total_skills * 3, 40)
        + Min(patterns.has_endorsements * 5, 30)
        + (IF patterns.skill_categories.technical > 5 THEN 30 ELSE 15), 100)

_get_skills_recommendations(patterns) ==
    IF patterns.total_skills < 10
      THEN <<"Add more relevant skills (aim for 15-20)">> ELSE <<>>

_analyze_skills(data) ==
    LET skills == Get(data, "skills", <<>>)
        Endorsed(s) == Get(s, "endorsements", 0) > 0
    IN  IF Count(skills, IsSkillName) > 0 THEN Fault(NoGet)
        ELSE LET patterns == [total_skills |-> Len(skills),
                              has_endorsements |-> Count(skills, Endorsed),
                              skill_categories |-> ProfileAnalyzerAgent_categorize_skills(skills)]
             IN  Ok([section |-> "skills", patterns |-> patterns,
                     score |-> _calculate_skills_score(patterns),
                     recommendations |-> _get_skills_recommendations(patterns)])

ProfileAnalyzerAgent_action_map ==
    {"analyze_headline", "analyze_about", "analyze_experience", "analyze_skills"}

ProfileAnalyzerAgent_handler(name, data) ==
    CASE name = "analyze_headline" -> _analyze_headline(data)
      [] name = "analyze_about" -> _analyze_about(data)
      [] name = "analyze_experience" -> _analyze_experience(data)
      [] name = "analyze_skills" -> _analyze_skills(data)

(* ----------------------------------------------- ContentGeneratorAgent *)

ContentGeneratorAgent_think(input_data) ==
    IF ~IsMapping(input_data) THEN Fault(NoGet)
    ELSE LET content_type == Get(input_data, "content_type", "all")
             user_data == Get(input_data, "user_data", EmptyMap)
             market_patterns == Get(input_data, "market_patterns", EmptyMap)
             Wanted(s) == content_type \in {"all", s}
             chosen == SelectSeq(<<"headline", "about", "experience">>, Wanted)
         IN  IF chosen # <<>> /\ ~IsMapping(market_patterns) THEN Fault(NoGet)
             ELSE Ok([actions |->
                        [i \in 1..Len(chosen) |->
                           [name |-> "generate_" \o chosen[i],
                            input |-> [user_data |-> user_data,
                                       patterns |-> Get(market_patterns, chosen[i], EmptyMap)]]],
                      strategy |-> "content_generation"])

\* self.templates[...].format(...): the fixed text of each template stands as
\* one element per fragment between the substituted fields.
HeadlinePrompt(role, industry, skills, value_prop) ==
    <<"Generate a compelling LinkedIn headline for: Role: ">> \o Fmt(role)
    \o <<" Industry: ">> \o Fmt(industry) \o <<" Key Skills: ">> \o skills
    \o <<" Value Proposition: ">> \o Fmt(value_prop) \o <<" Requirements: ...">>

AboutPrompt(name, role, industry, experience, achievements, goals) ==
    <<"Write a professional LinkedIn About section for: Name: ">> \o Fmt(name)
    \o <<" Current Role: ">> \o Fmt(role) \o <<" Industry: ">> \o Fmt(industry)
    \o <<" Experience Summary: ">> \o Fmt(experience)
    \o <<" Key Achievements: ">> \o achievements
    \o <<" Career Goals: ">> \o Fmt(goals) \o <<" Requirements: ...">>

ExperiencePrompt(role, company, responsibilities) ==
    <<"Transform this experience into impactful bullet points: Role: ">> \o Fmt(role)
    \o <<" Company: ">> \o Fmt(company)
    \o <<" Responsibilities: ">> \o Fmt(responsibilities) \o <<" Requirements: ...">>

\* A variant of _template_headline that joins every skill, not the first two.
_template_headline_all_skills(user_data) ==
    LET role == Get(user_data, "target_role", <<"P", "r", "o", "f", "e", "s", "s", "i", "o", "n", "a", "l">>)
        industry == Get(user_data, "industry", <<>>)
        skills == Get(user_data, "top_skills", <<>>)
        skill_str == IF skills # <<>> THEN Join(<<" ", "&", " ">>, skills) ELSE <<"E", "x", "c", "e", "l", "l", "e", "n", "c", "e">>
    IN  Fmt(role) \o <<" ", "|", " ">> \o skill_str \o <<" ", "|", " ", "D", "r", "i", "v", "i", "n", "g", " ", "I", "m", "p", "a", "c", "t", " ", "i", "n", " ">> \o Fmt(industry)

_template_headline(user_data) ==
    LET role == Get(user_data, "target_role", <<"P", "r", "o", "f", "e", "s", "s", "i", "o", "n", "a", "l">>)
        industry == Get(user_data, "industry", <<>>)
        skills == Get(user_data, "top_skills", <<>>)
        skill_str == IF skills # <<>> THEN Join(<<" ", "&", " ">>, Take(skills, 2)) ELSE <<"E", "x", "c", "e", "l", "l", "e", "n", "c", "e">>
    IN  Fmt(role) \o <<" ", "|", " ">> \o skill_str \o <<" ", "|", " ", "D", "r", "i", "v", "i", "n", "g", " ", "I", "m", "p", "a", "c", "t", " ", "i", "n", " ">> \o Fmt(industry)

_template_about(user_data) ==
    LET role == Get(user_data, "current_role", <<"p", "r", "o", "f", "e", "s", "s", "i", "o", "n", "a", "l">>)
        industry == Get(user_data, "industry", <<"m", "y", " ", "f", "i", "e", "l", "d">>)
        top_skills == Get(user_data, "top_skills", <<<<"L", "e", "a", "d", "e", "r", "s", "h", "i", "p">>, <<"I", "n", "n", "o", "v", "a", "t", "i", "o", "n">>>>)
    IN  IF top_skills = <<>> THEN Fault(IndexError)
        ELSE Ok(<<"Passionate ">> \o Fmt(role) \o <<" with expertise in ">> \o Fmt(industry)
                \o <<". ... Key areas of expertise: ">> \o top_skills[1]
                \o <<" Strategic Planning, Team Collaboration ... Feel free to reach out!">>)

_template_experience(exp) ==
    << <<"Led initiatives at ">> \o Fmt(Get(exp, "company", <<"t", "h", "e", " ", "o", "r", "g", "a", "n", "i", "z", "a", "t", "i", "o", "n">>)),
       <<"Collaborated with cross-functional teams to deliver results">>,
       <<"Implemented improvements that enhanced efficiency">> >>

_generate_headline(data, llm) ==
    LET user_data == Get(data, "user_data", EmptyMap)
    IN  IF ~IsMapping(user_data) THEN Fault(NoGet)
        ELSE LET top_skills == Get(user_data, "top_skills", <<<<"L", "e", "a", "d", "e", "r", "s", "h", "i", "p">>>>)
             IN  LET prompt == HeadlinePrompt(
                                       Get(user_data, "target_role", <<"P", "r", "o", "f", "e", "s", "s", "i", "o", "n", "a", "l">>),
                                       Get(user_data, "industry", <<"T", "e", "c", "h", "n", "o", "l", "o", "g", "y">>),
                                       Join(<<",", " ">>, top_skills),
                                       Get(user_data, "value_proposition", <<"D", "r", "i", "v", "i", "n", "g", " ", "r", "e", "s", "u", "l", "t", "s">>))
                      IN  IF llm THEN AwaitLlm(prompt, EmptyMap)
                          ELSE Ok([section |-> "headline",
                                   content |-> _template_headline(user_data),
                                   prompt_used |-> prompt])

_generate_about(data, llm) ==
    LET user_data == Get(data, "user_data", EmptyMap)
    IN  IF ~IsMapping(user_data) THEN Fault(NoGet)
        ELSE LET achievements == Get(user_data, "achievements", <<>>)
             IN  LET prompt == AboutPrompt(
                                       Get(user_data, "name", <<"P", "r", "o", "f", "e", "s", "s", "i", "o", "n", "a", "l">>),
                                       Get(user_data, "current_role", <<>>),
                                       Get(user_data, "industry", <<>>),
                                       Get(user_data, "experience_summary", <<>>),
                                       Join(<<",", " ">>, achievements),
                                       Get(user_data, "career_goals", <<>>))
                          generated == _template_about(user_data)
                      IN  IF llm THEN AwaitLlm(prompt, EmptyMap)
                          ELSE IF generated.kind = "fault" THEN generated
                          ELSE Ok([section |-> "about", content |-> generated.value,
                                   prompt_used |-> prompt])

\* The loop of _generate_experience from its k-th experience on, with the
\* entries optimized so far.
RECURSIVE ExperienceLoop(_, _, _, _)
ExperienceLoop(experiences, k, optimized_experiences, llm) ==
    IF k > Len(experiences)
      THEN Ok([section |-> "experience", content |-> optimized_experiences])
    ELSE LET exp == experiences[k]
         IN  IF ~IsMapping(exp) THEN Fault(NoGet)
             ELSE LET prompt == ExperiencePrompt(Get(exp, "title", <<>>),
                                                 Get(exp, "company", <<>>),
                                                 Get(exp, "description", <<>>))
                  IN  IF llm
                        THEN AwaitLlm(prompt, [k |-> k, optimized_experiences |-> optimized_experiences])
                        ELSE ExperienceLoop(experiences, k + 1,
                               Append(optimized_experiences,
                                      [title |-> Get(exp, "title", NoneStr),
                                       company |-> Get(exp, "company", NoneStr),
                                       bullets |-> _template_experience(exp)]), llm)

_generate_experience(data, llm) ==
    LET user_data == Get(data, "user_data", EmptyMap)
    IN  IF ~IsMapping(user_data) THEN Fault(NoGet)
        ELSE LET experiences == Get(user_data, "experience", <<>>)
             IN  ExperienceLoop(experiences, 1, <<>>, llm)

ContentGeneratorAgent_action_map ==
    {"generate_headline", "generate_about", "generate_experience"}

ContentGeneratorAgent_handler(name, data, llm) ==
    CASE name = "generate_headline" -> _generate_headline(data, llm)
      [] name = "generate_about" -> _generate_about(data, llm)
      [] name = "generate_experience" -> _generate_experience(data, llm)

\* The handler from the point where llm_client.generate returned `generated`.
ContentGeneratorAgent_resume(name, data, prompt, local, generated) ==
    CASE name = "generate_headline" ->
           Ok([section |-> "headline", content |-> generated, prompt_used |-> prompt])
      [] name = "generate_about" ->
           Ok([section |-> "about", content |-> generated, prompt_used |-> prompt])
      [] name = "generate_experience" ->
           LET experiences == data.user_data.experience
               exp == experiences[local.k]
           IN  ExperienceLoop(experiences, local.k + 1,
                   Append(local.optimized_experiences,
                          [title |-> Get(exp, "title", NoneStr),
                           company |-> Get(exp, "company", NoneStr),
                           bullets |-> generated]), TRUE)

(* ------------------------------------------------------ PortfolioAgent *)

_load_layout_rules ==
    [developer |-> [primary_sections |-> <<"hero", "projects", "skills">>,
                    layout_style |-> "project-first", color_scheme |-> "tech-modern"],
     analyst |-> [primary_sections |-> <<"hero", "metrics", "experience">>,
                  layout_style |-> "metrics-first", color_scheme |-> "professional"],
     designer |-> [primary_sections |-> <<"hero", "portfolio", "about">>,
                   layout_style |-> "visual-first", color_scheme |-> "creative"],
     manager |-> [primary_sections |-> <<"hero", "experience", "achievements">>,
                  layout_style |-> "experience-first", color_scheme |-> "executive"],
     default |-> [primary_sections |-> <<"hero", "about", "skills", "experience">>,
                  layout_style |-> "balanced", color_scheme |-> "professional"]]

dev_keywords == <<<<"d", "e", "v", "e", "l", "o", "p", "e", "r">>, <<"e", "n", "g", "i", "n", "e", "e", "r">>, <<"p", "r", "o", "g", "r", "a", "m", "m", "e", "r">>, <<"a", "r", "c", "h", "i", "t", "e", "c", "t">>>>
analyst_keywords == <<<<"a", "n", "a", "l", "y", "s", "t">>, <<"s", "c", "i", "e", "n", "t", "i", "s", "t">>, <<"r", "e", "s", "e", "a", "r", "c", "h", "e", "r">>>>
design_keywords == <<<<"d", "e", "s", "i", "g", "n", "e", "r">>, <<"u", "x">>, <<"u", "i">>, <<"c", "r", "e", "a", "t", "i", "v", "e">>>>
manager_keywords == <<<<"m", "a", "n", "a", "g", "e", "r">>, <<"d", "i", "r", "e", "c", "t", "o", "r">>, <<"l", "e", "a", "d">>, <<"h", "e", "a", "d">>, <<"v", "p">>>>

\* A variant of _categorize_role that checks the manager keywords first.
_categorize_role_manager_first(role) ==
    LET role_lower == lower(role)
    IN  IF ContainsAny(role_lower, manager_keywords) THEN "manager"
        ELSE IF ContainsAny(role_lower, dev_keywords) THEN "developer"
        ELSE IF ContainsAny(role_lower, analyst_keywords) THEN "analyst"
        ELSE IF ContainsAny(role_lower, design_keywords) THEN "designer"
        ELSE "default"

_categorize_role(role) ==
    LET role_lower == lower(role)
    IN  IF ContainsAny(role_lower, dev_keywords) THEN "developer"
        ELSE IF ContainsAny(role_lower, analyst_keywords) THEN "analyst"
        ELSE IF ContainsAny(role_lower, design_keywords) THEN "designer"
        ELSE IF ContainsAny(role_lower, manager_keywords) THEN "manager"
        ELSE "default"

PortfolioAgent_think(input_data) ==
    IF ~IsMapping(input_data) THEN Fault(NoGet)
    ELSE LET user_data == Get(input_data, "user_data", EmptyMap)
             career_dna == Get(input_data, "career_dna", EmptyMap)
         IN  IF ~IsMapping(user_data) THEN Fault(NoGet)
             ELSE IF ~IsStr(Get(user_data, "target_role", <<>>)) THEN Fault(NoLower)
             ELSE LET role_category == _categorize_role(Get(user_data, "target_role", <<>>))
                      layout == _load_layout_rules[role_category]
                  IN  Ok([actions |->
                            <<[name |-> "generate_hero",
                               input |-> [user_data |-> user_data,
                                          style |-> layout.color_scheme]],
                              [name |-> "generate_sections",
                               input |-> [user_data |-> user_data,
                                          sections |-> layout.primary_sections,
                                          career_dna |-> career_dna]],
                              [name |-> "generate_layout",
                               input |-> [layout_style |-> layout.layout_style,
                                          color_scheme |-> layout.color_scheme]]>>,
                          strategy |-> "portfolio_generation",
                          role_category |-> role_category,
                          layout |-> layout])

_generate_tagline(user_data) ==
    LET role == Get(user_data, "target_role", <<"P", "r", "o", "f", "e", "s", "s", "i", "o", "n", "a", "l">>)
        skills == Get(user_data, "top_skills", <<>>)
    IN  IF skills # <<>>
          THEN <<"S", "p", "e", "c", "i", "a", "l", "i", "z", "i", "n", "g", " ", "i", "n", " ">> \o skills[1] \o <<" ", "|", " ">> \o Fmt(role)
          ELSE <<"P", "a", "s", "s", "i", "o", "n", "a", "t", "e", " ">> \o Fmt(role) \o <<" ", "B", "u", "i", "l", "d", "i", "n", "g", " ", "I", "m", "p", "a", "c", "t", "f", "u", "l", " ", "S", "o", "l", "u", "t", "i", "o", "n", "s">>

_generate_hero(data) ==
    LET user_data == Get(data, "user_data", EmptyMap)
        style == Get(data, "style", "professional")
    IN  IF ~IsMapping(user_data) THEN Fault(NoGet)
        ELSE Ok([section |-> "hero",
                 content |-> [name |-> Get(user_data, "name", <<>>),
                              title |-> Get(user_data, "target_role", <<>>),
                              tagline |-> _generate_tagline(user_data),
                              cta_primary |-> "View My Work",
                              cta_secondary |-> "Contact Me",
                              style |-> style]])

_format_projects(user_data) ==
    LET projects == Get(user_data, "projects", <<>>)
    IN  IF \E i \in 1..Len(projects) : ~IsMapping(projects[i]) THEN Fault(NoGet)
        ELSE Ok([i \in 1..Len(projects) |->
                   [title |-> Get(projects[i], "name", <<>>),
                    description |-> Get(projects[i], "description", <<>>),
                    technologies |-> Get(projects[i], "technologies", <<>>),
                    link |-> Get(projects[i], "url", <<>>),
                    image |-> Get(projects[i], "image", <<>>)]])

PortfolioAgent_categorize_skills(skills) ==
    [technical |-> [i \in 1..Len(skills) |->
                      IF IsSkillName(skills[i]) THEN skills[i]
                      ELSE Get(skills[i], "name", skills[i])],
     tools |-> <<>>, soft |-> <<>>]

_format_skills(user_data, career_dna) ==
    LET skills == Get(user_data, "skills", <<>>)
    IN  IF ~IsMapping(career_dna) THEN Fault(NoGet)
        ELSE Ok([highlighted |-> Take(Get(career_dna, "strengths", <<>>), 5),
                 all_skills |-> skills,
                 categories |-> PortfolioAgent_categorize_skills(skills)])

_format_experience(user_data) ==
    LET experience == Get(user_data, "experience", <<>>)
    IN  IF \E i \in 1..Len(experience) : ~IsMapping(experience[i]) THEN Fault(NoGet)
        ELSE Ok([i \in 1..Len(experience) |->
                   [title |-> Get(experience[i], "title", <<>>),
                    company |-> Get(experience[i], "company", <<>>),
                    period |-> Get(experience[i], "period", <<>>),
                    highlights |-> Take(Get(experience[i], "bullets", <<>>), 3)]])

_format_about(user_data) ==
    Ok([summary |-> Get(user_data, "about", <<>>),
        interests |-> Get(user_data, "interests", <<>>),
        values |-> Get(user_data, "values", <<>>)])

_format_metrics(user_data, career_dna) ==
    LET projects == Get(user_data, "projects", <<>>)
        skills == Get(user_data, "skills", <<>>)
    IN  Ok(<<[label |-> "Years Experience", value |-> Get(user_data, "years_exp", <<"5", "+">>)],
                  [label |-> "Projects Completed", value |-> Decimal(Len(projects))],
                  [label |-> "Skills", value |-> Decimal(Len(skills))]>>)

_format_contact(user_data) ==
    Ok([email |-> Get(user_data, "email", <<>>),
        linkedin |-> Get(user_data, "linkedin_url", <<>>),
        github |-> Get(user_data, "github_url", <<>>),
        website |-> Get(user_data, "website", <<>>)])

_generate_sections(data) ==
    LET user_data == Get(data, "user_data", EmptyMap)
        sections == Get(data, "sections", <<>>)
        career_dna == Get(data, "career_dna", EmptyMap)
        Format(s) == CASE s = "projects" -> _format_projects(user_data)
                       [] s = "skills" -> _format_skills(user_data, career_dna)
                       [] s = "experience" -> _format_experience(user_data)
                       [] s = "about" -> _format_about(user_data)
                       [] s = "metrics" -> _format_metrics(user_data, career_dna)
                       [] s = "contact" -> _format_contact(user_data)
        Handled(s) == s \in {"projects", "skills", "experience", "about", "metrics", "contact"}
        handled == SelectSeq(sections, Handled)
        Faulty(s) == Format(s).kind = "fault"
        faulty == SelectSeq(handled, Faulty)
    IN  IF handled # <<>> /\ ~IsMapping(user_data) THEN Fault(NoGet)
        ELSE IF faulty # <<>> THEN Format(faulty[1])
        ELSE Ok([sections |->
                   [s \in {handled[i] : i \in 1..Len(handled)} |-> Format(s).value]])

color_palettes ==
    ("professional" :> [primary |-> "#2563eb", secondary |-> "#64748b",
                        background |-> "#ffffff", text |-> "#1e293b"])
    @@ ("tech-modern" :> [primary |-> "#8b5cf6", secondary |-> "#06b6d4",
                          background |-> "#0f172a", text |-> "#f1f5f9"])
    @@ ("creative" :> [primary |-> "#ec4899", secondary |-> "#f59e0b",
                       background |-> "#fdf4ff", text |-> "#1e1b4b"])
    @@ ("executive" :> [primary |-> "#0f172a", secondary |-> "#475569",
                        background |-> "#f8fafc", text |-> "#0f172a"])

_get_typography(layout_style) ==
    [heading_font |-> "Inter", body_font |-> "Inter", code_font |-> "Fira Code"]

_generate_layout(data) ==
    LET layout_style == Get(data, "layout_style", "balanced")
        color_scheme == Get(data, "color_scheme", "professional")
    IN  Ok([layout_style |-> layout_style,
            colors |-> Get(color_palettes, color_scheme, color_palettes["professional"]),
            typography |-> _get_typography(layout_style),
            spacing |-> "comfortable"])

PortfolioAgent_action_map == {"generate_hero", "generate_sections", "generate_layout"}

PortfolioAgent_handler(name, data) ==
    CASE name = "generate_hero" -> _generate_hero(data)
      [] name = "generate_sections" -> _generate_sections(data)
      [] name = "generate_layout" -> _generate_layout(data)

(* --------------------------------------------------- OptimizationAgent *)

\* if skill_clicks < 0.05, if bounce_rate > 0.7: the rates in percent.
SkillClickThreshold == 5
BounceRateThreshold == 70

\* A variant of _analyze_feedback whose thresholds themselves trigger.
OptimizationAgent_analyze_feedback_inclusive(feedback) ==
    LET view_trend == Get(feedback, "profile_views_trend", 0)
        skill_clicks == Get(feedback, "skill_click_rate", 0)
        bounce_rate == Get(feedback, "portfolio_bounce_rate", 0)
    IN  [headline_needs_update |-> view_trend < 0,
         skills_need_reorder |-> skill_clicks <= SkillClickThreshold,
         portfolio_needs_update |-> bounce_rate >= BounceRateThreshold,
         content_needs_refresh |-> view_trend < 0]

OptimizationAgent_analyze_feedback(feedback) ==
    LET view_trend == Get(feedback, "profile_views_trend", 0)
        skill_clicks == Get(feedback, "skill_click_rate", 0)
        bounce_rate == Get(feedback, "portfolio_bounce_rate", 0)
    IN  [headline_needs_update |-> view_trend < 0,
         skills_need_reorder |-> skill_clicks < SkillClickThreshold,
         portfolio_needs_update |-> bounce_rate > BounceRateThreshold,
         content_needs_refresh |-> view_trend < 0]

\* A variant of think that takes an absent headline for the empty text.
OptimizationAgent_think_empty_headline(input_data) ==
    IF ~IsMapping(input_data) THEN Fault(NoGet)
    ELSE LET feedback == Get(input_data, "feedback", EmptyMap)
             current_content == Get(input_data, "current_content", EmptyMap)
             market_trends == Get(input_data, "market_trends", EmptyMap)
         IN  IF ~IsMapping(feedback) THEN Fault(NoGet)
             ELSE LET analysis == OptimizationAgent_analyze_feedback(feedback)
                      any == analysis.headline_needs_update \/ analysis.skills_need_reorder
                             \/ analysis.portfolio_needs_update
                  IN  IF any /\ (~IsMapping(current_content) \/ ~IsMapping(market_trends))
                        THEN Fault(NoGet)
                      ELSE Ok([actions |->
                               (IF analysis.headline_needs_update
                                  THEN <<[name |-> "optimize_headline",
                                          input |-> [current |-> Get(current_content, "headline", <<>>),
                                                     feedback |-> Get(feedback, "headline_metrics", EmptyMap),
                                                     trends |-> Get(market_trends, "headline_trends", EmptyMap)]]>>
                                  ELSE <<>>)
                               \o (IF analysis.skills_need_reorder
                                     THEN <<[name |-> "reorder_skills",
                                             input |-> [current_skills |-> Get(current_content, "skills", <<>>),
                                                        market_demand |-> Get(market_trends, "skill_demand", EmptyMap),
                                                        engagement |-> Get(feedback, "skill_engagement", EmptyMap)]]>>
                                     ELSE <<>>)
                               \o (IF analysis.portfolio_needs_update
                                     THEN <<[name |-> "update_portfolio",
                                             input |-> [current_layout |-> Get(current_content, "portfolio_layout", PyNone),
                                                        engagement_metrics |-> Get(feedback, "portfolio_metrics", EmptyMap),
                                                        trends |-> Get(market_trends, "portfolio_trends", EmptyMap)]]>>
                                     ELSE <<>>),
                               analysis |-> analysis,
                               strategy |-> "continuous_optimization"])

OptimizationAgent_think(input_data) ==
    IF ~IsMapping(input_data) THEN Fault(NoGet)
    ELSE LET feedback == Get(input_data, "feedback", EmptyMap)
             current_content == Get(input_data, "current_content", EmptyMap)
             market_trends == Get(input_data, "market_trends", EmptyMap)
         IN  IF ~IsMapping(feedback) THEN Fault(NoGet)
             ELSE LET analysis == OptimizationAgent_analyze_feedback(feedback)
                      any == analysis.headline_needs_update \/ analysis.skills_need_reorder
                             \/ analysis.portfolio_needs_update
                  IN  IF any /\ (~IsMapping(current_content) \/ ~IsMapping(market_trends))
                        THEN Fault(NoGet)
                      ELSE Ok([actions |->
                               (IF analysis.headline_needs_update
                                  THEN <<[name |-> "optimize_headline",
                                          input |-> [current |-> Get(current_content, "headline", NoneStr),
                                                     feedback |-> Get(feedback, "headline_metrics", EmptyMap),
                                                     trends |-> Get(market_trends, "headline_trends", EmptyMap)]]>>
                                  ELSE <<>>)
                               \o (IF analysis.skills_need_reorder
                                     THEN <<[name |-> "reorder_skills",
                                             input |-> [current_skills |-> Get(current_content, "skills", <<>>),
                                                        market_demand |-> Get(market_trends, "skill_demand", EmptyMap),
                                                        engagement |-> Get(feedback, "skill_engagement", EmptyMap)]]>>
                                     ELSE <<>>)
                               \o (IF analysis.portfolio_needs_update
                                     THEN <<[name |-> "update_portfolio",
                                             input |-> [current_layout |-> Get(current_content, "portfolio_layout", PyNone),
                                                        engagement_metrics |-> Get(feedback, "portfolio_metrics", EmptyMap),
                                                        trends |-> Get(market_trends, "portfolio_trends", EmptyMap)]]>>
                                     ELSE <<>>),
                               analysis |-> analysis,
                               strategy |-> "continuous_optimization"])

\* sorted(..., key=Key, reverse=True): by descending key, equal keys in
\* their original order.
RECURSIVE SortedByKey(_)
SortedByKey(s) ==
    IF s = <<>> THEN <<>>
    ELSE LET top == CHOOSE k \in {s[i].key : i \in 1..Len(s)} :
                       \A i \in 1..Len(s) : s[i].key <= k
             IsTop(x) == x.key = top
             NotTop(x) == x.key # top
         IN  SelectSeq(s, IsTop) \o SortedByKey(SelectSeq(s, NotTop))
SortedDesc(s, Key(_)) ==
    LET sorted == SortedByKey([i \in 1..Len(s) |-> [key |-> Key(s[i]), item |-> s[i]]])
    IN  [i \in 1..Len(sorted) |-> sorted[i].item]

_generate_headline_suggestions(current, feedback, trends) ==
    IF ~IsMapping(trends) THEN Fault(NoGet)
    ELSE LET trending_keywords == Take(Get(trends, "keywords", <<>>), 3)
             New(kw) == ~Contains(lower(current), lower(kw))
             fresh == SelectSeq(trending_keywords, New)
         IN  IF trending_keywords # <<>> /\ ~IsStr(current) THEN Fault(NoLower)
             ELSE IF ~IsMapping(feedback) THEN Fault(NoGet)
             ELSE IF Get(feedback, "search_appearances", 0) < 10 /\ ~IsStr(current)
               THEN Fault(NoReplace)
             ELSE LET suggestions ==
                          [i \in 1..Len(fresh) |-> current \o <<" ", "|", " ">> \o fresh[i]]
                          \o (IF Get(feedback, "search_appearances", 0) < 10
                                THEN <<Replace(current, "|", Bullet)>> ELSE <<>>)
                  IN  Ok(IF suggestions # <<>> THEN suggestions ELSE <<current>>)

_rank_suggestions(suggestions, feedback) ==
    LET Score(s) == 50 + (IF Len(s) <= 120 THEN 20 ELSE 0)
                       + (IF Contains(s, <<"|">>) \/ Contains(s, <<Bullet>>) THEN 15 ELSE 0)
    IN  IF \E i \in 1..Len(suggestions) : ~IsStr(suggestions[i])
          THEN Fault("object of type 'NoneType' has no len()")
          ELSE Ok(SortedDesc(suggestions, Score))

\* min(data_points * 0.33, 1.0), in hundredths.
_calculate_confidence(feedback) ==
    LET data_points == Bool(Get(feedback, "profile_views", 0) > 0)
                       + Bool(Get(feedback, "search_appearances", 0) > 0)
                       + Bool(Get(feedback, "connection_requests", 0) > 0)
    IN  Min(data_points * 33, 100)

_optimize_headline(data) ==
    LET current == Get(data, "current", <<>>)
        feedback == Get(data, "feedback", EmptyMap)
        trends == Get(data, "trends", EmptyMap)
        suggestions == _generate_headline_suggestions(current, feedback, trends)
    IN  IF suggestions.kind = "fault" THEN suggestions
        ELSE LET ranked == _rank_suggestions(suggestions.value, feedback)
             IN  IF ranked.kind = "fault" THEN ranked
                 ELSE Ok([optimization_type |-> "headline",
                          current |-> current,
                          suggestions |-> ranked.value,
                          recommended |-> IF ranked.value # <<>> THEN ranked.value[1] ELSE current,
                          confidence |-> _calculate_confidence(feedback)])

\* (demand_score * 0.6) + (engagement_score * 0.4), in tenths.
_calculate_skill_score(skill, market_demand, engagement) ==
    Get(market_demand, lower(skill), 50) * 6 + Get(engagement, lower(skill), 50) * 4

_reorder_skills(data) ==
    LET current_skills == Get(data, "current_skills", <<>>)
        market_demand == Get(data, "market_demand", EmptyMap)
        engagement == Get(data, "engagement", EmptyMap)
    IN  LET scored_skills ==
                     [i \in 1..Len(current_skills) |->
                        LET skill == current_skills[i]
                            name == IF IsSkillName(skill) THEN skill.chars
                                    ELSE Get(skill, "name", <<>>)
                        IN  [name |-> name,
                             score |-> _calculate_skill_score(name, market_demand, engagement)]]
                 Score(x) == x.score
                 sorted_skills == SortedDesc(scored_skills, Score)
             IN  Ok([optimization_type |-> "skills",
                     original_order |-> current_skills,
                     optimized_order |-> [i \in 1..Len(sorted_skills) |-> sorted_skills[i].name],
                     scores |-> [n \in {sorted_skills[i].name : i \in 1..Len(sorted_skills)} |->
                                   _calculate_skill_score(n, market_demand, engagement)]])

_analyze_section_performance(metrics) ==
    [hero |-> [scroll_depth |-> 100, time_spent |-> Get(metrics, "hero_time", 5)],
     projects |-> [scroll_depth |-> 80, engagement |-> Get(metrics, "project_clicks", 0)],
     skills |-> [scroll_depth |-> 70, engagement |-> Get(metrics, "skill_views", 0)],
     contact |-> [scroll_depth |-> 40, conversions |-> Get(metrics, "contact_clicks", 0)]]

_generate_layout_recommendations(current, performance, trends) ==
    (IF performance.projects.scroll_depth < 50
       THEN <<[type |-> "reorder", action |-> "Move projects section higher",
               reason |-> "Low scroll depth for projects section"]>> ELSE <<>>)
    \o (IF performance.contact.conversions < 1
          THEN <<[type |-> "enhance", action |-> "Add floating CTA button",
                  reason |-> "Low contact conversions"]>> ELSE <<>>)

_update_portfolio(data) ==
    LET current_layout == Get(data, "current_layout", EmptyMap)
        metrics == Get(data, "engagement_metrics", EmptyMap)
        trends == Get(data, "trends", EmptyMap)
    IN  IF ~IsMapping(metrics) THEN Fault(NoGet)
        ELSE LET section_performance == _analyze_section_performance(metrics)
             IN  Ok([optimization_type |-> "portfolio",
                     current_layout |-> current_layout,
                     section_performance |-> section_performance,
                     recommendations |->
                         _generate_layout_recommendations(current_layout, section_performance, trends)])

_generate_headline_variants(current) ==
    LET Words(s) == {i \in 1..Len(s) : ~IsSpace(s[i]) /\ (i = 1 \/ IsSpace(s[i - 1]))}
        \* the end of the sixth word: " ".join(words[:6])
        sixth == CHOOSE i \in 1..Len(current) :
                    /\ Cardinality({j \in Words(current) : j <= i}) = 6
                    /\ ~IsSpace(current[i])
                    /\ (i = Len(current) \/ IsSpace(current[i + 1]))
        first == CHOOSE i \in Words(current) : \A j \in Words(current) : i <= j
    IN  <<<<"<rocket> ">> \o current>>
        \o (IF Contains(current, <<"|">>) THEN <<Replace(current, "|", Bullet)>> ELSE <<>>)
        \o (IF WordCount(current) > 6 THEN <<SubSeq(current, first, sixth)>> ELSE <<>>)

_generate_ab_test(data) ==
    LET content_type == Get(data, "content_type", "headline")
        current == Get(data, "current", <<>>)
    IN  IF content_type = "headline" /\ ~IsStr(current)
          THEN Fault("argument of type 'NoneType' is not iterable")
        ELSE Ok([test_type |-> content_type \o "_ab_test",
                 control |-> current,
                 variants |-> IF content_type = "headline"
                                THEN _generate_headline_variants(current) ELSE <<>>,
                 recommended_duration |-> "7 days"])

\* The timestamp of the record is the wall clock and is not modelled.
_record_optimization(history, action, result) ==
    Append(history, [action |-> action,
                     result_summary |-> Get(result, "optimization_type", "unknown")])

OptimizationAgent_action_map ==
    {"optimize_headline", "reorder_skills", "update_portfolio", "generate_ab_test"}

OptimizationAgent_handler(name, data) ==
    CASE name = "optimize_headline" -> _optimize_headline(data)
      [] name = "reorder_skills" -> _reorder_skills(data)
      [] name = "update_portfolio" -> _update_portfolio(data)
      [] name = "generate_ab_test" -> _generate_ab_test(data)

(* --------------------------------------------------- OrchestratorAgent *)

workflows ==
    [full_optimization |-> <<"analyze_profile", "build_career_dna",
                             "generate_content", "build_portfolio">>,
     profile_only |-> <<"analyze_profile", "generate_content">>,
     portfolio_only |-> <<"build_career_dna", "build_portfolio">>,
     optimize |-> <<"analyze_feedback", "apply_optimizations">>]

\* A variant of workflow without the fallback: an unlisted tag selects no step.
workflow_no_fallback(request_type) == Get(workflows, request_type, <<>>)

\* workflow = workflows.get(request_type, workflows["full_optimization"])
workflow(request_type) ==
    Get(workflows, request_type, workflows["full_optimization"])

OrchestratorAgent_think(input_data) ==
    IF ~IsMapping(input_data) THEN Fault(NoGet)
    ELSE LET request_type == Get(input_data, "request_type", "full_optimization")
         IN  IF request_type = UnhashableTag THEN Fault(Unhashable)
             ELSE LET steps == workflow(request_type)
                  IN  Ok([actions |-> [i \in 1..Len(steps) |->
                                         [name |-> steps[i], input |-> input_data]],
                          workflow |-> steps,
                          strategy |-> request_type])

_run_profile_analysis(data) ==
    CallRun("ProfileAnalyzer",
            [profile_data |-> Get(data, "profile_data", EmptyMap), analysis_type |-> "full"],
            "profile_analysis")

_extract_strengths(user_data, analysis) ==
    LET skills == Take(Get(user_data, "skills", <<>>), 5)
    IN  [i \in 1..Len(skills) |->
           IF IsSkillName(skills[i]) THEN skills[i] ELSE Get(skills[i], "name", skills[i])]

RECURSIVE Concat(_)
Concat(ss) == IF ss = <<>> THEN <<>> ELSE Head(ss) \o Concat(Tail(ss))

_identify_gaps(user_data, analysis) ==
    LET results == Get(analysis, "results", <<>>)
    IN  Take(Concat([i \in 1..Len(results) |-> Get(results[i], "recommendations", <<>>)]), 5)

_find_opportunities(user_data) ==
    LET target_role == Get(user_data, "target_role", <<>>)
        current_role == Get(user_data, "current_role", <<>>)
    IN  IF target_role # current_role
          THEN <<<<"T", "r", "a", "n", "s", "i", "t", "i", "o", "n", " ", "t", "o", " ">> \o Fmt(target_role)>> ELSE <<>>

_determine_focus(user_data) ==
    <<"Optimize LinkedIn headline", "Enhance project descriptions",
      "Build thought leadership content">>

_build_career_dna(data) ==
    LET user_data == Get(data, "user_data", EmptyMap)
        profile_analysis == Get(data, "profile_analysis", EmptyMap)
    IN  IF ~IsMapping(user_data) \/ ~IsMapping(profile_analysis) THEN Fault(NoGet)
        ELSE Ok([step |-> "career_dna",
                 result |-> [strengths |-> _extract_strengths(user_data, profile_analysis),
                             gaps |-> _identify_gaps(user_data, profile_analysis),
                             opportunities |-> _find_opportunities(user_data),
                             recommended_focus |-> _determine_focus(user_data)]])

\* A variant of _generate_content that labels its result with the step's name.
_generate_content_named_as_step(data) ==
    CallRun("ContentGenerator",
            [content_type |-> "all",
             user_data |-> Get(data, "user_data", EmptyMap),
             market_patterns |-> Get(data, "market_patterns", EmptyMap)],
            "generate_content")

_generate_content(data) ==
    CallRun("ContentGenerator",
            [content_type |-> "all",
             user_data |-> Get(data, "user_data", EmptyMap),
             market_patterns |-> Get(data, "market_patterns", EmptyMap)],
            "content_generation")

_build_portfolio(data) ==
    CallRun("PortfolioBuilder",
            [user_data |-> Get(data, "user_data", EmptyMap),
             career_dna |-> Get(data, "career_dna", EmptyMap)],
            "portfolio_building")

OrchestratorAgent_analyze_feedback(data) ==
    CallRun("OptimizationAgent",
            [feedback |-> Get(data, "feedback", EmptyMap),
             current_content |-> Get(data, "current_content", EmptyMap),
             market_trends |-> Get(data, "market_trends", EmptyMap)],
            "feedback_analysis")

_apply_optimizations(data) ==
    LET optimizations == Get(data, "optimizations", <<>>)
        Auto(o) == Get(o, "auto_apply", FALSE)
        NotAuto(o) == ~Get(o, "auto_apply", FALSE)
    IN  IF \E i \in 1..Len(optimizations) : ~IsMapping(optimizations[i]) THEN Fault(NoGet)
        ELSE Ok([step |-> "apply_optimizations",
                 applied |-> SelectSeq(optimizations, Auto),
                 pending_approval |-> SelectSeq(optimizations, NotAuto)])

\* A variant of the Orchestrator's dispatch table that lacks analyze_feedback.
OrchestratorAgent_action_map_without_feedback ==
    {"analyze_profile", "build_career_dna", "generate_content", "build_portfolio",
     "apply_optimizations"}

OrchestratorAgent_action_map ==
    {"analyze_profile", "build_career_dna", "generate_content", "build_portfolio",
     "analyze_feedback", "apply_optimizations"}

OrchestratorAgent_handler(name, data) ==
    IF ~IsMapping(data) THEN Fault(NoGet)
    ELSE CASE name = "analyze_profile" -> _run_profile_analysis(data)
           [] name = "build_career_dna" -> _build_career_dna(data)
           [] name = "generate_content" -> _generate_content(data)
           [] name = "build_portfolio" -> _build_portfolio(data)
           [] name = "analyze_feedback" -> OrchestratorAgent_analyze_feedback(data)
           [] name = "apply_optimizations" -> _apply_optimizations(data)

(* ------------------------------------------------------------ dispatch *)

\* A subclass whose think hands back the mapping it was given.
Subclass_think(input_data) ==
    IF ~IsMapping(input_data) THEN Fault(NoGet) ELSE Ok(input_data)

think(a, input_data) ==
    CASE a = "ProfileAnalyzer" -> ProfileAnalyzerAgent_think(input_data)
      [] a = "ContentGenerator" -> ContentGeneratorAgent_think(input_data)
      [] a = "PortfolioBuilder" -> PortfolioAgent_think(input_data)
      [] a = "OptimizationAgent" -> OptimizationAgent_think(input_data)
      [] a = "Orchestrator" -> OrchestratorAgent_think(input_data)
      [] a = "Subclass" -> Subclass_think(input_data)

action_map(a) ==
    CASE a = "ProfileAnalyzer" -> ProfileAnalyzerAgent_action_map
      [] a = "ContentGenerator" -> ContentGeneratorAgent_action_map
      [] a = "PortfolioBuilder" -> PortfolioAgent_action_map
      [] a = "OptimizationAgent" -> OptimizationAgent_action_map
      [] a = "Orchestrator" -> OrchestratorAgent_action_map
      [] a = "Subclass" -> ProfileAnalyzerAgent_action_map

\* A variant of NoHandler that raises instead of returning the payload.
NoHandler_raises(action) == Fault("Unknown action: " \o action.name)

\* The last line of every execute: no handler was found for action.name.
NoHandler(action) == Ok(UnknownAction(action.name))

\* execute up to the handler's first suspension: handler = action_map.get(
\* action.name); if handler: return await handler(action.input_data);
\* return {"error": ...}.
execute(a, action, llm) ==
    IF action.name \notin action_map(a) THEN NoHandler(action)
    ELSE CASE a \in {"ProfileAnalyzer", "Subclass"} ->
                ProfileAnalyzerAgent_handler(action.name, action.input_data)
           [] a = "ContentGenerator" ->
                ContentGeneratorAgent_handler(action.name, action.input_data, llm)
           [] a = "PortfolioBuilder" ->
                PortfolioAgent_handler(action.name, action.input_data)
           [] a = "OptimizationAgent" ->
                OptimizationAgent_handler(action.name, action.input_data)
           [] a = "Orchestrator" ->
                OrchestratorAgent_handler(action.name, action.input_data)

\* A variant of RecordedBy that records whatever execute returns, the
\* unknown-action payload included.
RecordedBy_every_call(a, action, result, history) ==
    IF a = "OptimizationAgent"
      THEN Append(history, [action |-> action.name,
                            result_summary |-> Get(result, "optimization_type", "unknown")])
      ELSE history

\* What execute does with the handler's result before returning it:
\* OptimizationAgent records the optimization, the others nothing.
RecordedBy(a, action, result, history) ==
    IF a = "OptimizationAgent" /\ action.name \in OptimizationAgent_action_map
      THEN _record_optimization(history, action.name, result)
      ELSE history

(* ------------------------------------------------------ BaseAgent state *)

\* A frame is one call of run or of execute in progress.
\* pc: "think" (line 85), "loop" (line 92), "handler" (line 97, inside
\* execute), "await_llm" (suspended in llm_client.generate), "await_run"
\* (inside a sub-agent's run).
NoAction == AgentAction("", EmptyMap)

RunFrame(a, input_data) ==
    [kind |-> "run", agent |-> a, pc |-> "think", input_data |-> input_data,
     thought |-> EmptyMap, actions |-> <<>>, i |-> 1, results |-> <<>>,
     action |-> NoAction, prompt |-> <<>>, local |-> EmptyMap, step |-> ""]

ExecuteFrame(a, action) ==
    [kind |-> "execute", agent |-> a, pc |-> "handler", input_data |-> EmptyMap,
     thought |-> EmptyMap, actions |-> <<>>, i |-> 1, results |-> <<>>,
     action |-> action, prompt |-> <<>>, local |-> EmptyMap, step |-> ""]

Top == stack[Len(stack)]
Below == SubSeq(stack, 1, Len(stack) - 1)

\* What the last call made by the caller gave back.
NoCall == [op |-> "none", agent |-> "", raised |-> FALSE, arg |-> EmptyMap, value |-> EmptyMap]
Returned(op, a, arg, value) ==
    [op |-> op, agent |-> a, raised |-> FALSE, arg |-> arg, value |-> value]
Raised(op, a, arg, msg) ==
    [op |-> op, agent |-> a, raised |-> TRUE, arg |-> arg, value |-> [error |-> msg]]

\* A variant of SuccessOutcome that omits think's output.
SuccessOutcome_without_thought(f) ==
    [status |-> "success", agent |-> AgentName(f.agent), results |-> f.results]

SuccessOutcome(f) ==
    [status |-> "success", agent |-> AgentName(f.agent),
     results |-> f.results, thought |-> f.thought]

\* A variant of ErrorOutcome that hands back the results gathered so far.
ErrorOutcome_with_results(f, msg) ==
    [status |-> "error", agent |-> AgentName(f.agent), error |-> msg,
     results |-> f.results]

ErrorOutcome(f, msg) ==
    [status |-> "error", agent |-> AgentName(f.agent), error |-> msg]

\* self.memory[-limit:]
LastEntries(mem, limit) ==
    LET start == IF limit = 0 THEN 0
                 ELSE IF limit > 0 THEN Max(Len(mem) - limit, 0)
                 ELSE Min(-limit, Len(mem))
    IN  SubSeq(mem, start + 1, Len(mem))

get_memory_context(mem, limit) ==
    LET recent == LastEntries(mem, limit)
    IN  [i \in 1..Len(recent) |-> [role |-> recent[i].role, content |-> recent[i].content]]

(* --------------------------------------------------------------- inputs *)

DataScientist ==
    [target_role |-> <<"D", "a", "t", "a", " ", "S", "c", "i", "e", "n", "t", "i", "s", "t">>, industry |-> <<"F", "i", "n", "a", "n", "c", "e">>,
     top_skills |-> <<<<"P", "y", "t", "h", "o", "n">>, <<"S", "Q", "L">>>>, value_proposition |-> <<"d", "r", "i", "v", "i", "n", "g", " ", "g", "r", "o", "w", "t", "h">>]

ProfileAnalyzerInputs ==
    {EmptyMap,
     [analysis_type |-> "headline", profile_data |-> [headline |-> <<"D", "a", "t", "a", " ", "L", "e", "a", "d", " ", "|", " ", "5", " ", "y", "r", "s">>]],
     [analysis_type |-> "summary"],
     [profile_data |-> NotAMapping],
     [profile_data |-> [headline |-> <<"H", "e", "l", "p", "i", "n", "g", " ", "t", "e", "a", "m", "s">>, about |-> NoneStr]]}

ContentGeneratorInputs ==
    {EmptyMap,
     [content_type |-> "headline", user_data |-> DataScientist],
     [content_type |-> "headline",
      user_data |-> [target_role |-> <<"M", "L", " ", "E", "n", "g", "i", "n", "e", "e", "r">>, industry |-> <<"H", "e", "a", "l", "t", "h">>,
                     top_skills |-> <<<<"G", "o">>, <<"S", "Q", "L">>, <<"A", "W", "S">>>>]],
     [content_type |-> "experience",
      user_data |-> [experience |-> <<[title |-> <<"A", "n", "a", "l", "y", "s", "t">>, company |-> <<"A", "c", "m", "e">>]>>]],
     [market_patterns |-> NotAMapping],
     [user_data |-> [top_skills |-> <<>>]]}

PortfolioInputs ==
    {EmptyMap,
     [user_data |-> [target_role |-> <<"E", "n", "g", "i", "n", "e", "e", "r", "i", "n", "g", " ", "M", "a", "n", "a", "g", "e", "r">>]],
     [user_data |-> NotAMapping],
     [career_dna |-> NotAMapping]}

OptimizationInputs ==
    {EmptyMap,
     [feedback |-> [profile_views_trend |-> -5]],
     [feedback |-> [profile_views_trend |-> -5, skill_click_rate |-> 10,
                    portfolio_bounce_rate |-> 80],
      current_content |-> [headline |-> <<"D", "a", "t", "a", " ", "L", "e", "a", "d", " ", "|", " ", "5", " ", "y", "r", "s">>]],
     [feedback |-> NotAMapping]}

OrchestratorInputs ==
    {EmptyMap,
     [request_type |-> "full_optimization"],
     [request_type |-> "profile_only"],
     [request_type |-> "portfolio_only"],
     [request_type |-> "optimize"],
     [request_type |-> "unknown_tag"],
     [request_type |-> UnhashableTag],
     [request_type |-> "profile_only", profile_data |-> NotAMapping],
     [request_type |-> "portfolio_only", user_data |-> NotAMapping]}

SubclassInputs ==
    {EmptyMap,
     NotAMapping,
     [actions |-> <<[name |-> "analyze_headline", input |-> [headline |-> <<"D", "a", "t", "a", " ", "L", "e", "a", "d">>]],
                    [name |-> "summarize"],
                    [name |-> "analyze_skills", input |-> [skills |-> <<[name |-> <<"P", "y", "t", "h", "o", "n">>]>>]]>>],
     [actions |-> <<[name |-> "summarize"], [input |-> EmptyMap]>>]}

Inputs(a) ==
    CASE a = "ProfileAnalyzer" -> ProfileAnalyzerInputs
      [] a = "ContentGenerator" -> ContentGeneratorInputs
      [] a = "PortfolioBuilder" -> PortfolioInputs
      [] a = "OptimizationAgent" -> OptimizationInputs
      [] a = "Orchestrator" -> OrchestratorInputs
      [] a = "Subclass" -> SubclassInputs

\* Action names passed to execute directly.
ExecuteNames == {"analyze_headline", "reorder_skills", "summarize"}

Messages == {AgentMessage("user", "hello"), AgentMessage("agent", "hi")}

\* What llm_client.generate returns when it returns.
GeneratedText == <<"g", "e", "n", "e", "r", "a", "t", "e", "d", " ", "t", "e", "x", "t">>

(* ----------------------------------------------------------------- Init *)

Init ==
    /\ state = [a \in Agents |-> "idle"]
    /\ memory = [a \in Agents |-> <<>>]
    /\ actions_history = [a \in Agents |-> <<>>]
    /\ optimization_history = <<>>
    /\ llm_client \in BOOLEAN
    /\ target \in Agents
    /\ suspended = <<>>
    /\ stack = <<>>
    /\ ret = NoCall
    /\ calls = 0

(* ------------------------------------------- returning and raising *)

\* A variant of ExecuteReturns in which the loop keeps only the newest record.
ExecuteReturns_keeps_newest(below, f, value) ==
    /\ optimization_history' = RecordedBy(f.agent, f.action, value, optimization_history)
    /\ IF f.kind = "run"
         THEN /\ actions_history' =
                    [actions_history EXCEPT ![f.agent] =
                        <<[f.action EXCEPT !.output_data = value,
                                           !.status = "completed"]>>]
              /\ stack' = Append(below, [f EXCEPT !.results = Append(@, value),
                                                  !.i = @ + 1,
                                                  !.pc = "loop",
                                                  !.action = NoAction,
                                                  !.prompt = <<>>,
                                                  !.local = EmptyMap,
                                                  !.step = ""])
              /\ UNCHANGED ret
         ELSE /\ stack' = below
              /\ ret' = Returned("execute", f.agent, f.action.name, value)
              /\ UNCHANGED actions_history

\* execute returns `value` in frame f, which sits on `below`.  In a run
\* frame the loop records the action (lines 98-101); a direct call of
\* execute hands the value to the caller.
ExecuteReturns(below, f, value) ==
    /\ optimization_history' = RecordedBy(f.agent, f.action, value, optimization_history)
    /\ IF f.kind = "run"
         THEN /\ actions_history' =
                    [actions_history EXCEPT ![f.agent] =
                        Append(@, [f.action EXCEPT !.output_data = value,
                                                   !.status = "completed"])]
              /\ stack' = Append(below, [f EXCEPT !.results = Append(@, value),
                                                  !.i = @ + 1,
                                                  !.pc = "loop",
                                                  !.action = NoAction,
                                                  !.prompt = <<>>,
                                                  !.local = EmptyMap,
                                                  !.step = ""])
              /\ UNCHANGED ret
         ELSE /\ stack' = below
              /\ ret' = Returned("execute", f.agent, f.action.name, value)
              /\ UNCHANGED actions_history

\* A variant of RunReturns in which the Orchestrator handler hands the
\* sub-agent's outcome on as it is, without wrapping it.
RunReturns_unwrapped(below, f, outcome) ==
    IF below = <<>>
      THEN /\ stack' = <<>>
           /\ ret' = Returned("run", f.agent, f.input_data, outcome)
           /\ UNCHANGED <<actions_history, optimization_history>>
      ELSE ExecuteReturns(SubSeq(below, 1, Len(below) - 1), below[Len(below)], outcome)

\* The run in frame f returns `outcome` to its caller: the outermost
\* caller, or the Orchestrator handler awaiting it, which wraps it as
\* {step, result} and returns from execute.
RunReturns(below, f, outcome) ==
    IF below = <<>>
      THEN /\ stack' = <<>>
           /\ ret' = Returned("run", f.agent, f.input_data, outcome)
           /\ UNCHANGED <<actions_history, optimization_history>>
      ELSE LET p == below[Len(below)]
           IN  ExecuteReturns(SubSeq(below, 1, Len(below) - 1), p,
                              [step |-> p.step, result |-> outcome])

\* A variant of Caught in which run has no except clause.
Caught_nowhere(f) == FALSE

\* Line 113: `except Exception` encloses the whole body of run, so a fault
\* raised in a run frame is caught there; execute has no handler of its own.
Caught(f) == f.kind = "run"

\* A fault is raised in frame f, the top of the stack.  Caught, it ends the
\* run (lines 113-120); uncaught, it unwinds every frame and reaches the
\* caller of the outermost one.
Raises(below, f, msg) ==
    IF Caught(f)
      THEN /\ state' = [state EXCEPT ![f.agent] = "error"]
           /\ RunReturns(below, f, ErrorOutcome(f, msg))
      ELSE LET g == stack[1]
           IN  /\ stack' = <<>>
               /\ ret' = Raised(g.kind, g.agent,
                                IF g.kind = "run" THEN g.input_data ELSE g.action.name,
                                msg)
               /\ UNCHANGED <<state, actions_history, optimization_history>>

\* The result r of evaluating execute (or its continuation) in frame f.
Proceed(below, f, r) ==
    CASE r.kind = "return" ->
           /\ ExecuteReturns(below, f, r.value)
           /\ UNCHANGED state
      [] r.kind = "fault" -> Raises(below, f, r.msg)
      [] r.kind = "await_llm" ->
           /\ stack' = Append(below, [f EXCEPT !.pc = "await_llm",
                                               !.prompt = r.prompt,
                                               !.local = r.local])
           /\ UNCHANGED <<state, actions_history, optimization_history, ret>>
      [] r.kind = "call_run" ->
           /\ stack' = Append(Append(below, [f EXCEPT !.pc = "await_run", !.step = r.step]),
                              RunFrame(r.agent, r.input_data))
           /\ state' = [state EXCEPT ![r.agent] = "thinking"]
           /\ UNCHANGED <<actions_history, optimization_history, ret>>

(* -------------------------------------------------------------- actions *)

\* A variant of Run that enters the loop's state at once.
Run_skips_thinking(a, input_data) ==
    /\ stack = <<>>
    /\ calls < MaxCalls
    /\ calls' = calls + 1
    /\ stack' = <<RunFrame(a, input_data)>>
    /\ state' = [state EXCEPT ![a] = "executing"]
    /\ ret' = NoCall
    /\ UNCHANGED <<memory, actions_history, optimization_history, llm_client, target, suspended>>

\* The caller awaits run(input_data): lines 80-81.
Run(a, input_data) ==
    /\ stack = <<>>
    /\ calls < MaxCalls
    /\ calls' = calls + 1
    /\ stack' = <<RunFrame(a, input_data)>>
    /\ state' = [state EXCEPT ![a] = "thinking"]
    /\ ret' = NoCall
    /\ UNCHANGED <<memory, actions_history, optimization_history, llm_client, target, suspended>>

\* A variant of Think that leaves the state as think found it.
Think_stays_thinking ==
    /\ stack # <<>>
    /\ Top.pc = "think"
    /\ LET f == Top
           r == think(f.agent, f.input_data)
       IN  IF r.kind = "fault"
             THEN Raises(Below, f, r.msg)
             ELSE /\ stack' = Append(Below, [f EXCEPT !.thought = r.value,
                                                      !.actions = Get(r.value, "actions", <<>>),
                                                      !.results = <<>>,
                                                      !.i = 1,
                                                      !.pc = "loop"])
                  /\ UNCHANGED <<state, actions_history, optimization_history, ret>>
    /\ UNCHANGED <<memory, llm_client, target, suspended, calls>>

\* Lines 85-90: think, then state = EXECUTING and the action list.
Think ==
    /\ stack # <<>>
    /\ Top.pc = "think"
    /\ LET f == Top
           r == think(f.agent, f.input_data)
       IN  IF r.kind = "fault"
             THEN Raises(Below, f, r.msg)
             ELSE /\ state' = [state EXCEPT ![f.agent] = "executing"]
                  /\ stack' = Append(Below, [f EXCEPT !.thought = r.value,
                                                      !.actions = Get(r.value, "actions", <<>>),
                                                      !.results = <<>>,
                                                      !.i = 1,
                                                      !.pc = "loop"])
                  /\ UNCHANGED <<actions_history, optimization_history, ret>>
    /\ UNCHANGED <<memory, llm_client, target, suspended, calls>>

\* A variant of action_data that always takes the last entry of the list.
action_data_last(f) == f.actions[Len(f.actions)]

\* Line 92: `for action_data in actions` - the entry the loop is at.
action_data(f) == f.actions[f.i]

\* A variant of BeginAction that hands the action the results gathered so far.
BeginAction_feeds_results ==
    /\ stack # <<>>
    /\ Top.pc = "loop"
    /\ Top.i <= Len(Top.actions)
    /\ LET f == Top
           d == action_data(f)
       IN  IF "name" \notin DOMAIN d
             THEN Raises(Below, f, "'name'")
             ELSE /\ stack' = Append(Below,
                         [f EXCEPT !.action = AgentAction(d.name,
                                                 [previous_results |-> f.results]),
                                   !.pc = "handler"])
                  /\ UNCHANGED <<state, actions_history, optimization_history, ret>>
    /\ UNCHANGED <<memory, llm_client, target, suspended, calls>>

\* Lines 92-97: the next action record is constructed and execute entered.
BeginAction ==
    /\ stack # <<>>
    /\ Top.pc = "loop"
    /\ Top.i <= Len(Top.actions)
    /\ LET f == Top
           d == action_data(f)
       IN  IF "name" \notin DOMAIN d
             THEN Raises(Below, f, "'name'")
             ELSE /\ stack' = Append(Below,
                         [f EXCEPT !.action = AgentAction(d.name,
                                                          Get(d, "input", EmptyMap)),
                                   !.pc = "handler"])
                  /\ UNCHANGED <<state, actions_history, optimization_history, ret>>
    /\ UNCHANGED <<memory, llm_client, target, suspended, calls>>

\* execute runs the handler up to its return, its fault or its first
\* suspension; on return the loop records the action (lines 98-101).
Handler ==
    /\ stack # <<>>
    /\ Top.pc = "handler"
    /\ Proceed(Below, Top, execute(Top.agent, Top.action, llm_client))
    /\ UNCHANGED <<memory, llm_client, target, suspended, calls>>

\* llm_client.generate returns a text and the handler goes on.
LlmReturns ==
    /\ stack # <<>>
    /\ Top.pc = "await_llm"
    /\ Proceed(Below, Top,
               ContentGeneratorAgent_resume(Top.action.name, Top.action.input_data,
                                            Top.prompt, Top.local, GeneratedText))
    /\ UNCHANGED <<memory, llm_client, target, suspended, calls>>

\* llm_client.generate raises.
LlmFails ==
    /\ stack # <<>>
    /\ Top.pc = "await_llm"
    /\ Raises(Below, Top, GenerationFailed)
    /\ UNCHANGED <<memory, llm_client, target, suspended, calls>>

\* A variant of Finish in which the run, its loop over, never returns.
Finish_never_returns ==
    /\ stack # <<>>
    /\ Top.pc = "loop"
    /\ Top.i > Len(Top.actions)
    /\ UNCHANGED vars

\* Lines 103-111: the loop is over.
Finish ==
    /\ stack # <<>>
    /\ Top.pc = "loop"
    /\ Top.i > Len(Top.actions)
    /\ state' = [state EXCEPT ![Top.agent] = "completed"]
    /\ RunReturns(Below, Top, SuccessOutcome(Top))
    /\ UNCHANGED <<memory, llm_client, target, suspended, calls>>

\* The caller awaits execute(AgentAction(name, {})) directly.
Execute(a, name) ==
    /\ stack = <<>>
    /\ calls < MaxCalls
    /\ calls' = calls + 1
    /\ stack' = <<ExecuteFrame(a, AgentAction(name, EmptyMap))>>
    /\ ret' = NoCall
    /\ UNCHANGED <<state, memory, actions_history, optimization_history, llm_client, target, suspended>>

\* A variant of add_to_memory that puts the new entry first.
add_to_memory_in_front(a, message) ==
    /\ stack = <<>>
    /\ calls < MaxCalls
    /\ calls' = calls + 1
    /\ memory' = [memory EXCEPT ![a] = <<message>> \o @]
    /\ ret' = Returned("add_to_memory", a, message, PyNone)
    /\ UNCHANGED <<state, actions_history, optimization_history, llm_client, target, suspended, stack>>

add_to_memory(a, message) ==
    /\ stack = <<>>
    /\ calls < MaxCalls
    /\ calls' = calls + 1
    /\ memory' = [memory EXCEPT ![a] = Append(@, message)]
    /\ ret' = Returned("add_to_memory", a, message, PyNone)
    /\ UNCHANGED <<state, actions_history, optimization_history, llm_client, target, suspended, stack>>

GetMemoryContext(a, limit) ==
    /\ stack = <<>>
    /\ ret' = Returned("get_memory_context", a, limit, get_memory_context(memory[a], limit))
    /\ UNCHANGED <<state, memory, actions_history, optimization_history, llm_client,
                   target, suspended, stack, calls>>

\* A variant of reset that leaves actions_history alone.
reset_keeps_history(a) ==
    /\ stack = <<>>
    /\ state' = [state EXCEPT ![a] = "idle"]
    /\ memory' = [memory EXCEPT ![a] = <<>>]
    /\ ret' = Returned("reset", a, EmptyMap, PyNone)
    /\ UNCHANGED <<actions_history, optimization_history, llm_client, target, suspended, stack, calls>>

\* A variant of reset in which the Orchestrator resets its sub-agents too.
reset_with_sub_agents(a) ==
    LET own == IF a = "Orchestrator" THEN SubAgents \cup {a} ELSE {a}
    IN  /\ stack = <<>>
        /\ state' = [b \in Agents |-> IF b \in own THEN "idle" ELSE state[b]]
        /\ memory' = [b \in Agents |-> IF b \in own THEN <<>> ELSE memory[b]]
        /\ actions_history' = [b \in Agents |-> IF b \in own THEN <<>> ELSE actions_history[b]]
        /\ ret' = Returned("reset", a, EmptyMap, PyNone)
        /\ UNCHANGED <<optimization_history, llm_client, target, suspended, stack, calls>>

\* Lines 133-137.
reset(a) ==
    /\ stack = <<>>
    /\ state' = [state EXCEPT ![a] = "idle"]
    /\ memory' = [memory EXCEPT ![a] = <<>>]
    /\ actions_history' = [actions_history EXCEPT ![a] = <<>>]
    /\ ret' = Returned("reset", a, EmptyMap, PyNone)
    /\ UNCHANGED <<optimization_history, llm_client, target, suspended, stack, calls>>

Next ==
    \/ \E input_data \in Inputs(target) : Run(target, input_data)
    \/ Think
    \/ BeginAction
    \/ Handler
    \/ LlmReturns
    \/ LlmFails
    \/ Finish
    \/ \E name \in ExecuteNames : Execute(target, name)
    \/ \E message \in Messages : add_to_memory(target, message)
    \/ \E limit \in 0..MaxLimit : GetMemoryContext(target, limit)
    \/ reset(target)

Spec == Init /\ [][Next]_vars


(* ------------------------------------------------ helpers called alone *)

\* Role strings: one to MaxWords words separated by a space.
\* The methods that change no field.  One result of them is looked at per
\* program state: a second such call from the state the first one left would
\* start from the same fields and reach nothing new.
HelperOps == {"_categorize_role", "think", "handler"}

RoleWords ==
    {<<"E", "n", "g", "i", "n", "e", "e", "r", "i", "n", "g">>, <<"D", "e", "v", "e", "l", "o", "p", "e", "r">>, <<"A", "n", "a", "l", "y", "s", "t">>, <<"S", "c", "i", "e", "n", "t", "i", "s", "t">>, <<"D", "e", "s", "i", "g", "n", "e", "r">>, <<"U", "X">>,
     <<"M", "a", "n", "a", "g", "e", "r">>, <<"L", "e", "a", "d">>, <<"V", "P">>, <<"T", "e", "a", "c", "h", "e", "r">>, <<"B", "u", "i", "l", "d", "e", "r">>, <<"S", "a", "l", "e", "s">>}

Roles ==
    {Join(<<" ">>, ws) : ws \in UNION {[1..n -> RoleWords] : n \in 1..MaxWords}}

\* An agent constructed without a text-generation client, on which think,
\* execute, add_to_memory and helper methods are called directly.
HelpersInit ==
    /\ Init
    /\ llm_client = FALSE

\* The caller calls PortfolioAgent._categorize_role(role).
CategorizeRole(role) ==
    /\ stack = <<>>
    /\ ret.op \notin HelperOps
    /\ target = "PortfolioBuilder"
    /\ ret' = Returned("_categorize_role", "PortfolioBuilder", role, _categorize_role(role))
    /\ UNCHANGED <<state, memory, actions_history, optimization_history, llm_client,
                   target, suspended, stack, calls>>

\* A variant of CallThink in which think keeps a record of what it decided.
CallThink_records(a, input_data) ==
    LET r == think(a, input_data)
    IN  /\ stack = <<>>
        /\ ret.op \notin HelperOps
        /\ ret' = IF r.kind = "fault" THEN Raised("think", a, input_data, r.msg)
                  ELSE Returned("think", a, input_data, r.value)
        /\ optimization_history' =
              Append(optimization_history, [action |-> "think", result_summary |-> "unknown"])
        /\ UNCHANGED <<state, memory, actions_history, llm_client, target, suspended, stack, calls>>

\* The caller awaits think(input_data) alone: no think body assigns to a
\* field of self or calls a method that does.
CallThink(a, input_data) ==
    LET r == think(a, input_data)
    IN  /\ stack = <<>>
        /\ ret.op \notin HelperOps
        /\ ret' = IF r.kind = "fault" THEN Raised("think", a, input_data, r.msg)
                  ELSE Returned("think", a, input_data, r.value)
        /\ UNCHANGED <<state, memory, actions_history, optimization_history, llm_client,
                       target, suspended, stack, calls>>

\* A text of n one-letter words.
Words(n) == [i \in 1..(2 * n - 1) |-> IF i % 2 = 1 THEN "w" ELSE " "]

\* Word counts below, at and above the counts the scores are capped at.
WordCounts == {1, 5, 6, 99, 100, 299, 300, 310}

Texts ==
    {<<>>, NoneStr, <<"L", "e", "a", "d", "i", "n", "g", " ", "5", " ", "t", "e", "a", "m", "s", " ", "|", " ", "b", "u", "i", "l", "d", "i", "n", "g", " ", "d", "a", "t", "a", " ", "p", "r", "o", "d", "u", "c", "t", "s", " ", "n", "o", "w">>,
     <<"I", " ", "a", "c", "h", "i", "e", "v", "e", "d", " ", "m", "o", "r", "e", ",", " ", "c", "o", "n", "n", "e", "c", "t", " ">> \o Words(310)}
    \cup {Words(n) : n \in WordCounts}

ExperienceEntries ==
    {EmptyMap,
     [description |-> <<"G", "r", "e", "w", " ", "s", "a", "l", "e", "s", " ", "5", "x">>, bullets |-> <<"b", "b", "b">>],
     [description |-> <<"L", "e", "d", " ", "a", " ", "t", "e", "a", "m">>, bullets |-> <<>>]}

Experiences == UNION {[1..n -> ExperienceEntries] : n \in 0..MaxPositions}

\* Lengths of skill lists below and above the counts the score is capped at.
SkillCounts == {0, 1, 5, 6, 7, 13, 14}

SkillLists ==
    {[i \in 1..n |-> [name |-> <<"S", "Q", "L">>, endorsements |-> 2]] : n \in SkillCounts}
    \cup {[i \in 1..n |-> [name |-> <<"C", "h", "e", "s", "s">>]] : n \in SkillCounts}
    \cup {<<StrSkill(<<"S", "Q", "L">>)>>}

AnalysisCalls ==
    {[name |-> "analyze_headline", data |-> [headline |-> t]] : t \in Texts}
    \cup {[name |-> "analyze_about", data |-> [about |-> t]] : t \in Texts}
    \cup {[name |-> "analyze_experience", data |-> [experience |-> e]] : e \in Experiences}
    \cup {[name |-> "analyze_skills", data |-> [skills |-> s]] : s \in SkillLists}
    \cup {[name |-> n, data |-> EmptyMap] : n \in ProfileAnalyzerAgent_action_map}

\* The caller awaits a handler of the ProfileAnalyzer alone.
CallAnalysis(call) ==
    LET r == ProfileAnalyzerAgent_handler(call.name, call.data)
    IN  /\ stack = <<>>
        /\ target = "ProfileAnalyzer"
        /\ ret.op \notin HelperOps
        /\ ret' = IF r.kind = "fault" THEN Raised("handler", target, call, r.msg)
                  ELSE Returned("handler", target, call, r.value)
        /\ UNCHANGED <<state, memory, actions_history, optimization_history, llm_client,
                       target, suspended, stack, calls>>

\* Feedback given to OptimizationAgent.think: each of the three fields it
\* looks at absent, or below, at or above the value it is compared with.
FeedbackFields ==
    [profile_views_trend |-> {-1, 0, 1},
     skill_click_rate |-> {4, 5, 6},
     portfolio_bounce_rate |-> {69, 70, 71}]

Feedbacks ==
    UNION {{f \in [ks -> -1..71] : \A k \in ks : f[k] \in FeedbackFields[k]} :
             ks \in SUBSET DOMAIN FeedbackFields}

HelpersNext ==
    \/ \E role \in Roles : CategorizeRole(role)
    \/ \E input_data \in Inputs(target) : CallThink(target, input_data)
    \/ \E feedback \in Feedbacks :
          target = "OptimizationAgent" /\ CallThink(target, [feedback |-> feedback])
    \/ \E call \in AnalysisCalls : CallAnalysis(call)
    \/ \E name \in ExecuteNames : Execute(target, name)
    \/ Handler
    \/ \E message \in Messages : add_to_memory(target, message)

SpecHelpers == HelpersInit /\ [][HelpersNext]_vars


(* ------------------------------------------------ two runs of one instance *)

\* An instance with a text-generation client, whose run is started again
\* while an earlier run of it waits for generate: run has no guard against
\* it (lines 76-81), so the second coroutine starts like the first.
ReentrantInit ==
    /\ Init
    /\ llm_client = TRUE
    /\ target = "ContentGenerator"

\* While the run in progress waits for generate, another coroutine awaits
\* run(input_data) on the same instance: lines 80-81.
Reenter(a, input_data) ==
    /\ stack # <<>>
    /\ Top.pc = "await_llm"
    /\ stack[1].kind = "run"
    /\ stack[1].agent = a
    /\ suspended = <<>>
    /\ calls < MaxCalls
    /\ calls' = calls + 1
    /\ suspended' = <<stack>>
    /\ stack' = <<RunFrame(a, input_data)>>
    /\ state' = [state EXCEPT ![a] = "thinking"]
    /\ ret' = NoCall
    /\ UNCHANGED <<memory, actions_history, optimization_history, llm_client, target>>

\* The event loop turns to the other coroutine, the current one waiting for
\* generate or having returned.
Resume ==
    /\ suspended # <<>>
    /\ IF stack = <<>> THEN TRUE ELSE Top.pc = "await_llm"
    /\ stack' = suspended[1]
    /\ suspended' = IF stack = <<>> THEN <<>> ELSE <<stack>>
    /\ UNCHANGED <<state, memory, actions_history, optimization_history, llm_client,
                   target, ret, calls>>

ReentrantNext ==
    \/ \E input_data \in Inputs(target) : Run(target, input_data)
    \/ Think
    \/ BeginAction
    \/ Handler
    \/ LlmReturns
    \/ LlmFails
    \/ Finish
    \/ \E input_data \in Inputs(target) : Reenter(target, input_data)
    \/ Resume

SpecReentrant == ReentrantInit /\ [][ReentrantNext]_vars

(* ------------------------------------------------- runs that are let go on *)

\* The values of analysis_type: the five the ProfileAnalyzer knows and two
\* it does not.
AnalysisTypes == {"full", "headline", "about", "experience", "skills", "summary", ""}

SampleProfile ==
    [headline |-> <<"D", "a", "t", "a", " ", "L", "e", "a", "d", " ", "|", " ", "5", " ", "y", "r", "s">>,
     about |-> <<"I", " ", "l", "e", "d", " ", "a", " ", "t", "e", "a", "m">>,
     experience |-> <<>>,
     skills |-> <<[name |-> <<"S", "Q", "L">>, endorsements |-> 3]>>]

AnalysisInputs ==
    {[analysis_type |-> t] : t \in AnalysisTypes}
    \cup {[analysis_type |-> t, profile_data |-> SampleProfile] : t \in AnalysisTypes}
    \cup {[analysis_type |-> "summary", profile_data |-> NotAMapping]}

\* Inputs of the OptimizationAgent around the headline: the trend falling or
\* rising, the headline present or not, search appearances absent, below,
\* at and above 10, trending keywords absent, empty or given.  The two rates
\* make think ask for reorder_skills and update_portfolio as well.
HeadlineInputs ==
    {[feedback |-> [profile_views_trend |-> t, portfolio_bounce_rate |-> 80,
                    headline_metrics |-> m],
      current_content |-> c,
      market_trends |-> k] :
        t \in {-1, 1},
        m \in {EmptyMap, [search_appearances |-> 5], [search_appearances |-> 10],
               [search_appearances |-> 50]},
        c \in {EmptyMap, [skills |-> <<StrSkill(<<"S", "Q", "L">>)>>], [headline |-> <<"D", "a", "t", "a", " ", "L", "e", "a", "d">>]},
        k \in {EmptyMap, [headline_trends |-> [keywords |-> <<>>]],
               [headline_trends |-> [keywords |-> <<<<"A", "I">>>>]]}}

\* Further inputs given to a single run.
OneRunInputs(a) ==
    IF a = "ProfileAnalyzer" THEN AnalysisInputs ELSE {}

\* The caller awaits one run of a fresh instance and nothing else.
OneRunNext ==
    \/ \E input_data \in Inputs(target) \cup OneRunInputs(target) :
          calls = 0 /\ Run(target, input_data)
    \/ Think
    \/ BeginAction
    \/ Handler
    \/ LlmReturns
    \/ LlmFails
    \/ Finish

\* The event loop goes on with the coroutine whenever it can go on, and every
\* call of generate comes back, with a text or with a fault: of these steps
\* one at most is possible at a time, the one the innermost frame is at.
\* The caller is not obliged to start a run.
SpecOneRun ==
    /\ Init
    /\ [][OneRunNext]_vars
    /\ WF_vars(Think \/ BeginAction \/ Handler \/ LlmReturns \/ LlmFails \/ Finish)

\* One run of a fresh OptimizationAgent on the headline inputs.
HeadlineInit ==
    /\ Init
    /\ target = "OptimizationAgent"

HeadlineNext ==
    \/ \E input_data \in HeadlineInputs :
          calls = 0 /\ Run("OptimizationAgent", input_data)
    \/ Think \/ BeginAction \/ Handler \/ Finish

SpecHeadline ==
    /\ HeadlineInit
    /\ [][HeadlineNext]_vars
(* ----------------------------------------------------------- properties *)

\* The outcome a run that ends in this step hands to whoever awaited it:
\* the caller, or the Orchestrator handler that wraps it as {step, result}.
HandedBack ==
    IF stack' = <<>>
      THEN ret'.value
      ELSE LET p == stack'[Len(stack')]
           IN  p.results[Len(p.results)].result

\* The steps whose Orchestrator handler awaits a sub-agent's run.
SubAgentSteps ==
    {"profile_analysis", "content_generation", "portfolio_building", "feedback_analysis"}

\* C1: for every agent and every input, the empty mapping and inputs that
\* make think or a handler fault included, run hands its caller an outcome
\* mapping whose status is success or error; no fault reaches the caller.
\* A sub-agent's run awaited by the Orchestrator does the same.
C1_RunNeverRaises ==
    ret.op = "run" =>
        /\ ~ret.raised
        /\ "status" \in DOMAIN ret.value
        /\ ret.value.status \in {"success", "error"}
        /\ ret.value.status = "success" =>
             \A i \in 1..Len(ret.value.results) :
                 ("step" \in DOMAIN ret.value.results[i]
                    /\ ret.value.results[i].step \in SubAgentSteps) =>
                     ret.value.results[i].result.status \in {"success", "error"}

\* A run of ContentGenerator whose external generation call raised has
\* returned an error outcome.
C1_Witness ==
    /\ ret.op = "run"
    /\ ret.agent = "ContentGenerator"
    /\ ~ret.raised
    /\ ret.value.status = "error"
    /\ ret.value.error = GenerationFailed

\* C2: once reset() has returned, whatever runs (successful or not) and
\* add_to_memory calls came before, the agent's state is Idle and its
\* memory and actions_history are empty.
C2_ResetClears ==
    ret.op = "reset" =>
        /\ state[ret.agent] = "idle"
        /\ memory[ret.agent] = <<>>
        /\ actions_history[ret.agent] = <<>>

\* reset has returned on an Orchestrator that had run a workflow in which
\* one sub-agent completed and another ended in Error.
C2_Witness ==
    /\ ret.op = "reset"
    /\ ret.agent = "Orchestrator"
    /\ calls >= 1
    /\ \E a \in SubAgents : state[a] = "completed" /\ actions_history[a] # <<>>
    /\ \E a \in SubAgents : state[a] = "error"

\* C3: in the step in which think or an execute faults during run, the run
\* is over (its frame is gone, so no later action is executed and nothing is
\* retried), the faulting action leaves no record, state is Error, and
\* what is handed back is exactly {status: error, agent, error: message},
\* with no results field.
FaultMessages ==
    {NoGet, NoLower, NoReplace, IndexError, Unhashable, GenerationFailed, "'name'"}

C3_FaultAbandonsRun ==
    [][\A a \in Agents :
          (state[a] # "error" /\ state'[a] = "error") =>
              /\ stack # <<>>
              /\ Top.kind = "run"
              /\ Top.agent = a
              /\ Len(stack') < Len(stack)
              /\ \A j \in 1..Len(stack') : stack'[j].agent # a
              /\ actions_history'[a] = actions_history[a]
              /\ DOMAIN HandedBack = {"status", "agent", "error"}
              /\ HandedBack.status = "error"
              /\ HandedBack.agent = AgentName(a)
              /\ HandedBack.error \in FaultMessages]_vars

\* A first run of ProfileAnalyzer has returned an error outcome after one
\* action had been executed and recorded.
C3_Witness ==
    /\ ret.op = "run"
    /\ ret.agent = "ProfileAnalyzer"
    /\ calls = 1
    /\ ret.value.status = "error"
    /\ DOMAIN ret.value = {"status", "agent", "error"}
    /\ Len(actions_history["ProfileAnalyzer"]) = 1
    /\ state["ProfileAnalyzer"] = "error"

\* C4: a run that returns success leaves state Completed and returns
\* exactly {status, agent, results, thought}; thought is think's output,
\* results has one entry per requested action, and the last that many
\* records of actions_history are the requested actions in order, each
\* completed and holding the i-th result as its output (on a fresh agent
\* they are the whole history).
C4_SuccessOutcome ==
    (ret.op = "run" /\ ~ret.raised /\ ret.value.status = "success") =>
        LET a == ret.agent
            thought == think(a, ret.arg).value
            actions == Get(thought, "actions", <<>>)
            n == Len(actions)
            h == actions_history[a]
        IN  /\ DOMAIN ret.value = {"status", "agent", "results", "thought"}
            /\ ret.value.agent = AgentName(a)
            /\ state[a] = "completed"
            /\ ret.value.thought = thought
            /\ Len(ret.value.results) = n
            /\ Len(h) >= n
            /\ calls = 1 => Len(h) = n
            /\ \A i \in 1..n :
                  /\ h[Len(h) - n + i].name = actions[i].name
                  /\ h[Len(h) - n + i].output_data = ret.value.results[i]
                  /\ h[Len(h) - n + i].status = "completed"

\* A second run has returned success with several results, on top of the
\* records an earlier run left.
C4_Witness ==
    /\ ret.op = "run"
    /\ ret.value.status = "success"
    /\ calls = 2
    /\ Len(ret.value.results) >= 2
    /\ Len(actions_history[ret.agent]) > Len(ret.value.results)

\* C5 as stated: every change of an agent's state is Idle->Thinking,
\* Thinking->Executing, Executing->Completed, Executing->Error, or a return
\* to Idle made by reset.
LinearTransitions ==
    {<<"idle", "thinking">>, <<"thinking", "executing">>,
     <<"executing", "completed">>, <<"executing", "error">>}

ByReset(a) == stack = <<>> /\ ret'.op = "reset" /\ ret'.agent = a /\ state'[a] = "idle"

C5_Original ==
    [][\A a \in Agents :
          state'[a] # state[a] =>
              \/ <<state[a], state'[a]>> \in LinearTransitions
              \/ ByReset(a)]_vars

\* C5: every agent has one state of the enumeration at a time, and every
\* change of it is one of the linear transitions, Thinking->Error (think
\* faulted), Completed->Thinking or Error->Thinking (run called again
\* without a reset), or a return to Idle made by reset; nothing but reset
\* makes the state Idle.
C5_Transitions ==
    [][\A a \in Agents :
          /\ state'[a] \in AgentState
          /\ state'[a] # state[a] =>
              \/ <<state[a], state'[a]>> \in
                    LinearTransitions \cup {<<"thinking", "error">>,
                                            <<"completed", "thinking">>,
                                            <<"error", "thinking">>}
              \/ ByReset(a)]_vars

\* A second run has started on an agent whose earlier run left records and
\* which was not reset in between.
C5_Witness ==
    /\ calls = 2
    /\ Len(stack) = 1
    /\ Top.kind = "run"
    /\ Top.pc = "think"
    /\ state[Top.agent] = "thinking"
    /\ actions_history[Top.agent] # <<>>

\* C6: at every moment of a run past think, the actions executed so far
\* are exactly the first i-1 of think's list, in that order and once each:
\* results and the newest records of actions_history hold them in list
\* order, and the one action in progress is the i-th.
C6_ListOrder ==
    \A k \in 1..Len(stack) :
        LET f == stack[k]
            h == actions_history[f.agent]
        IN  (f.kind = "run" /\ f.pc # "think") =>
                /\ f.i \in 1..(Len(f.actions) + 1)
                /\ Len(f.results) = f.i - 1
                /\ Len(h) >= f.i - 1
                /\ \A j \in 1..(f.i - 1) :
                      /\ h[Len(h) - (f.i - 1) + j].name = f.actions[j].name
                      /\ h[Len(h) - (f.i - 1) + j].output_data = f.results[j]
                /\ f.pc \in {"handler", "await_llm", "await_run"} =>
                      /\ f.i <= Len(f.actions)
                      /\ f.action.name = f.actions[f.i].name
                      /\ f.action.status = "pending"

\* The third action of a list is in progress, after the first two.
C6_Witness ==
    /\ stack # <<>>
    /\ Top.kind = "run"
    /\ Top.pc = "handler"
    /\ Top.i = 3
    /\ Len(Top.results) = 2
    /\ Top.actions[1].name # Top.actions[3].name

\* C7 as stated: get_memory_context(limit=k) on a memory of N entries
\* returns the last min(N, k) entries in insertion order, each reduced to
\* {role, content}, for every N >= 0 and k >= 0.
C7_LastMinEntries ==
    ret.op = "get_memory_context" =>
        LET mem == memory[ret.agent]
            N == Len(mem)
            m == Min(N, ret.arg)
        IN  ret.value = [i \in 1..m |-> [role |-> mem[N - m + i].role,
                                         content |-> mem[N - m + i].content]]

\* get_memory_context(limit=0) has returned both entries of a memory of two.
C7_LimitZeroReturnsAll ==
    /\ ret.op = "get_memory_context"
    /\ ret.arg = 0
    /\ Len(memory[ret.agent]) = 2
    /\ Len(ret.value) = 2

\* C8: a call of execute with a name absent from the dispatch table
\* returns {error: 'Unknown action: <name>'}, a payload that depends on the
\* name alone, and neither the call nor its return changes state, memory,
\* actions_history or optimization_history.
C8_UnknownExecute ==
    [][/\ (stack = <<>> /\ stack' # <<>> /\ stack'[1].kind = "execute") =>
             UNCHANGED <<state, memory, actions_history, optimization_history>>
       /\ (stack # <<>> /\ Top.kind = "execute"
             /\ Top.action.name \notin action_map(Top.agent)) =>
             /\ stack' = <<>>
             /\ ret' = Returned("execute", Top.agent, Top.action.name,
                                [error |-> "Unknown action: " \o Top.action.name])
             /\ UNCHANGED <<state, memory, actions_history, optimization_history>>]_vars

\* The second of two calls of execute on OptimizationAgent has returned
\* the unknown-action payload, the agent being as constructed.
C8_Witness ==
    /\ ret.op = "execute"
    /\ ret.agent = "OptimizationAgent"
    /\ ret.arg = "summarize"
    /\ ~ret.raised
    /\ calls = 2
    /\ optimization_history = <<>>
    /\ state["OptimizationAgent"] = "idle"
    /\ actions_history["OptimizationAgent"] = <<>>

\* C9: when the loop reaches an action whose name is absent from the
\* dispatch table, execute returns the error payload: the run goes on, the
\* payload is appended to results at that action's position, state stays
\* Executing and the loop moves to the next action; and when the loop is
\* over the run ends Completed with status success and those results.
C9_UnknownNameInLoop ==
    [][(stack # <<>> /\ Top.kind = "run") =>
          /\ (Top.pc = "handler" /\ Top.action.name \notin action_map(Top.agent)) =>
                /\ Len(stack') = Len(stack)
                /\ stack'[Len(stack)].results =
                      Append(Top.results, [error |-> "Unknown action: " \o Top.action.name])
                /\ stack'[Len(stack)].i = Top.i + 1
                /\ stack'[Len(stack)].pc = "loop"
                /\ state' = state
                /\ state[Top.agent] = "executing"
          /\ (Top.pc = "loop" /\ Top.i > Len(Top.actions)) =>
                /\ state'[Top.agent] = "completed"
                /\ HandedBack.status = "success"
                /\ HandedBack.results = Top.results]_vars

\* A run over [analyze_headline, summarize, analyze_skills] has returned
\* success with the error payload second of three results.
C9_Witness ==
    /\ ret.op = "run"
    /\ ret.agent = "Subclass"
    /\ ret.value.status = "success"
    /\ Len(ret.value.results) = 3
    /\ ret.value.results[2] = [error |-> "Unknown action: summarize"]
    /\ "error" \notin DOMAIN ret.value.results[3]
    /\ state["Subclass"] = "completed"
    /\ Len(actions_history["Subclass"]) = 3

\* C10 as stated: for any request_type that is not one of the four known
\* tags, and for a missing one, OrchestratorAgent.think returns the
\* full_optimization sequence.
KnownTags == {"full_optimization", "profile_only", "portfolio_only", "optimize"}

FullOptimization ==
    <<"analyze_profile", "build_career_dna", "generate_content", "build_portfolio">>

OrchestratorThinks ==
    stack # <<>> /\ Top.kind = "run" /\ Top.agent = "Orchestrator" /\ Top.pc = "think"

ReturnsFullOptimization ==
    /\ Len(stack') = Len(stack)
    /\ stack'[Len(stack)].thought.workflow = FullOptimization
    /\ stack'[Len(stack)].thought.workflow =
          OrchestratorAgent_think([request_type |-> "full_optimization"]).value.workflow
    /\ stack'[Len(stack)].actions =
          [i \in 1..4 |-> [name |-> FullOptimization[i], input |-> Top.input_data]]

C10_Original ==
    [][(OrchestratorThinks
          /\ ("request_type" \notin DOMAIN Top.input_data
                \/ Top.input_data.request_type \notin KnownTags)) =>
          ReturnsFullOptimization]_vars

\* C10: for any hashable request_type that is not one of the four known
\* tags, and for a missing one, OrchestratorAgent.think returns the
\* full_optimization sequence; for an unhashable request_type (a list) it
\* raises, and the run ends in Error.
C10_FallbackForTags ==
    [][OrchestratorThinks =>
          LET request_type == Get(Top.input_data, "request_type", "full_optimization")
          IN  /\ (("request_type" \notin DOMAIN Top.input_data
                      \/ request_type \notin KnownTags)
                    /\ request_type # UnhashableTag) => ReturnsFullOptimization
              /\ request_type = UnhashableTag =>
                    /\ state'[Top.agent] = "error"
                    /\ HandedBack.status = "error"]_vars

\* think has returned the full sequence for request_type = "unknown_tag".
C10_Witness ==
    /\ stack # <<>>
    /\ Top.agent = "Orchestrator"
    /\ Top.pc = "loop"
    /\ Get(Top.input_data, "request_type", "") = "unknown_tag"
    /\ Top.thought.workflow = FullOptimization
    /\ Top.thought.strategy = "unknown_tag"

\* C11: when a sub-agent's run ends in Error inside an Orchestrator step,
\* nothing is raised in the Orchestrator: in that very step its handler
\* returns {step, result} with result.status = error, the loop records the
\* step as completed and moves on with state Executing; and when the loop
\* is over the Orchestrator ends Completed with status success and those
\* results, the nested status being the only sign of the failure.
C11_SubAgentFaultSwallowed ==
    [][/\ (Len(stack) >= 2 /\ Top.kind = "run"
             /\ state[Top.agent] # "error" /\ state'[Top.agent] = "error") =>
             LET p == stack[Len(stack) - 1]
                 q == stack'[Len(stack) - 1]
                 last == q.results[Len(q.results)]
             IN  /\ Len(stack') = Len(stack) - 1
                 /\ q.agent = p.agent
                 /\ q.pc = "loop"
                 /\ q.i = p.i + 1
                 /\ Len(q.results) = Len(p.results) + 1
                 /\ DOMAIN last = {"step", "result"}
                 /\ last.step = p.step
                 /\ DOMAIN last.result = {"status", "agent", "error"}
                 /\ last.result.status = "error"
                 /\ last.result.agent = AgentName(Top.agent)
                 /\ state'[p.agent] = "executing"
                 /\ actions_history'[p.agent] =
                       Append(actions_history[p.agent],
                              [p.action EXCEPT !.output_data = last,
                                               !.status = "completed"])
       /\ (Len(stack) = 1 /\ Top.kind = "run" /\ Top.agent = "Orchestrator"
             /\ Top.pc = "loop" /\ Top.i > Len(Top.actions)) =>
             /\ state'[Top.agent] = "completed"
             /\ ret'.op = "run"
             /\ ret'.value.status = "success"
             /\ ret'.value.results = Top.results]_vars

\* An Orchestrator run has returned success although its first step's
\* sub-agent ended in Error and a later step's sub-agent completed.
C11_Witness ==
    /\ ret.op = "run"
    /\ ret.agent = "Orchestrator"
    /\ ret.value.status = "success"
    /\ state["Orchestrator"] = "completed"
    /\ Len(ret.value.results) >= 2
    /\ ret.value.results[1].step = "profile_analysis"
    /\ ret.value.results[1].result.status = "error"
    /\ state["ProfileAnalyzer"] = "error"
    /\ ret.value.results[2].step = "content_generation"
    /\ ret.value.results[2].result.status = "success"

\* C12: _categorize_role returns the first of developer, analyst,
\* designer, manager that has a keyword occurring as a substring of the
\* lower-cased role, else default; the category is a function of the role
\* alone, and "Engineering Manager" is developer.
RoleCategories ==
    <<[name |-> "developer",
       keywords |-> {<<"d", "e", "v", "e", "l", "o", "p", "e", "r">>, <<"e", "n", "g", "i", "n", "e", "e", "r">>, <<"p", "r", "o", "g", "r", "a", "m", "m", "e", "r">>, <<"a", "r", "c", "h", "i", "t", "e", "c", "t">>}],
      [name |-> "analyst", keywords |-> {<<"a", "n", "a", "l", "y", "s", "t">>, <<"s", "c", "i", "e", "n", "t", "i", "s", "t">>, <<"r", "e", "s", "e", "a", "r", "c", "h", "e", "r">>}],
      [name |-> "designer", keywords |-> {<<"d", "e", "s", "i", "g", "n", "e", "r">>, <<"u", "x">>, <<"u", "i">>, <<"c", "r", "e", "a", "t", "i", "v", "e">>}],
      [name |-> "manager",
       keywords |-> {<<"m", "a", "n", "a", "g", "e", "r">>, <<"d", "i", "r", "e", "c", "t", "o", "r">>, <<"l", "e", "a", "d">>, <<"h", "e", "a", "d">>, <<"v", "p">>}]>>

RoleMatches(role, i) ==
    \E kw \in RoleCategories[i].keywords : Contains(lower(role), kw)

C12_RolePriority ==
    ret.op = "_categorize_role" =>
        /\ IF \E i \in 1..4 : RoleMatches(ret.arg, i)
             THEN LET first == CHOOSE i \in 1..4 :
                                  /\ RoleMatches(ret.arg, i)
                                  /\ \A j \in 1..(i - 1) : ~RoleMatches(ret.arg, j)
                  IN  ret.value = RoleCategories[first].name
             ELSE ret.value = "default"
        /\ ret.arg = <<"E", "n", "g", "i", "n", "e", "e", "r", "i", "n", "g", " ", "M", "a", "n", "a", "g", "e", "r">> => ret.value = "developer"

\* _categorize_role("Engineering Manager") has returned developer.
C12_Witness ==
    /\ ret.op = "_categorize_role"
    /\ ret.arg = <<"E", "n", "g", "i", "n", "e", "e", "r", "i", "n", "g", " ", "M", "a", "n", "a", "g", "e", "r">>
    /\ ret.value = "developer"

\* The frames of OptimizationAgent runs that are past think and were given
\* a feedback holding nothing but a negative profile_views_trend.
OnlyNegativeTrend ==
    {k \in 1..Len(stack) :
        /\ stack[k].kind = "run"
        /\ stack[k].agent = "OptimizationAgent"
        /\ stack[k].pc # "think"
        /\ "feedback" \in DOMAIN stack[k].input_data
        /\ DOMAIN stack[k].input_data.feedback = {"profile_views_trend"}
        /\ stack[k].input_data.feedback.profile_views_trend < 0}

ActionNames(f) == {f.actions[i].name : i \in 1..Len(f.actions)}

\* C13 as stated: OptimizationAgent.think given a feedback that holds only
\* a negative profile_views_trend finds headline_needs_update and
\* content_needs_refresh, and its action list includes optimize_headline
\* but not reorder_skills.
C13_NoReorderOnTrendOnly ==
    \A k \in OnlyNegativeTrend :
        /\ stack[k].thought.analysis.headline_needs_update
        /\ stack[k].thought.analysis.content_needs_refresh
        /\ "optimize_headline" \in ActionNames(stack[k])
        /\ "reorder_skills" \notin ActionNames(stack[k])

\* think has returned [optimize_headline, reorder_skills] for the feedback
\* {profile_views_trend: -5}.
C13_ReorderIncluded ==
    \E k \in OnlyNegativeTrend :
        /\ stack[k].input_data.feedback.profile_views_trend = -5
        /\ stack[k].thought.analysis.headline_needs_update
        /\ stack[k].thought.analysis.content_needs_refresh
        /\ stack[k].thought.analysis.skills_need_reorder
        /\ [i \in 1..Len(stack[k].actions) |-> stack[k].actions[i].name]
              = <<"optimize_headline", "reorder_skills">>

\* C14: a ContentGeneratorAgent constructed without a text-generation
\* client, run with content_type = headline and a user_data that gives
\* target_role, top_skills and industry, returns success with exactly one
\* result, whose section is headline and whose content is
\* "<role> | <first two skills joined by ' & '> | Driving Impact in
\* <industry>", so that it contains the role and the industry.
C14_TemplateHeadline ==
    (/\ ret.op = "run"
     /\ ret.agent = "ContentGenerator"
     /\ ~llm_client
     /\ IsMapping(ret.arg)
     /\ Get(ret.arg, "content_type", "all") = "headline"
     /\ IsMapping(Get(ret.arg, "market_patterns", EmptyMap))
     /\ "user_data" \in DOMAIN ret.arg
     /\ IsMapping(Get(ret.arg, "user_data", EmptyMap))
     /\ {"target_role", "industry", "top_skills"} \subseteq DOMAIN Get(ret.arg, "user_data", EmptyMap)) =>
        LET u == Get(ret.arg, "user_data", EmptyMap)
            skills == u.top_skills
            skill_str == IF Len(skills) = 0 THEN <<"E", "x", "c", "e", "l", "l", "e", "n", "c", "e">>
                         ELSE IF Len(skills) = 1 THEN skills[1]
                         ELSE skills[1] \o <<" ", "&", " ">> \o skills[2]
        IN  /\ ~ret.raised
            /\ ret.value.status = "success"
            /\ Len(ret.value.results) = 1
            /\ ret.value.results[1].section = "headline"
            /\ ret.value.results[1].content =
                  u.target_role \o <<" ", "|", " ">> \o skill_str \o <<" ", "|", " ", "D", "r", "i", "v", "i", "n", "g", " ", "I", "m", "p", "a", "c", "t", " ", "i", "n", " ">>
                     \o u.industry
            /\ Contains(ret.value.results[1].content, u.target_role)
            /\ Contains(ret.value.results[1].content, u.industry)

\* Such a run has returned the template headline for a user with three
\* top skills, of which the content names two.
C14_Witness ==
    /\ ret.op = "run"
    /\ ret.agent = "ContentGenerator"
    /\ ~llm_client
    /\ ret.value.status = "success"
    /\ Get(ret.arg, "content_type", "all") = "headline"
    /\ Len(Get(ret.arg, "user_data", EmptyMap).top_skills) = 3
    /\ Len(ret.value.results) = 1
    /\ ret.value.results[1].content = <<"M", "L", " ", "E", "n", "g", "i", "n", "e", "e", "r", " ", "|", " ", "G", "o", " ", "&", " ", "S", "Q", "L", " ", "|", " ", "D", "r", "i", "v", "i", "n", "g", " ", "I", "m", "p", "a", "c", "t", " ", "i", "n", " ", "H", "e", "a", "l", "t", "h">>

\* The top frame is a run whose current action is inside execute, and the
\* step ends that execute (by a return or by a fault).
ExecuteEnds ==
    /\ stack # <<>>
    /\ Top.kind = "run"
    /\ Top.pc \in {"handler", "await_llm"}
    /\ ~(/\ Len(stack') >= Len(stack)
         /\ stack'[Len(stack)].pc \in {"await_llm", "await_run"})

\* C15 as stated: a record is constructed with status pending, and when
\* its execute returns or faults the loop mutates it once and keeps it:
\* either status completed with the output, or the error recorded; records
\* already kept are not modified.
C15_MutatedOnce ==
    [][/\ (stack # <<>> /\ Top.kind = "run" /\ Top.pc \in {"handler", "await_llm"}) =>
             Top.action.status = "pending"
       /\ ExecuteEnds =>
             LET h == actions_history'[Top.agent]
             IN  /\ Len(h) = Len(actions_history[Top.agent]) + 1
                 /\ SubSeq(h, 1, Len(h) - 1) = actions_history[Top.agent]
                 /\ h[Len(h)].name = Top.action.name
                 /\ h[Len(h)].input_data = Top.action.input_data
                 /\ \/ /\ h[Len(h)].status = "completed"
                       /\ h[Len(h)].output_data # PyNone
                    \/ h[Len(h)].error # "None"]_vars

\* A run has ended in Error in its second action: the history holds the
\* first action's record alone, and no record anywhere holds an error.
C15_FaultLeavesNoRecord ==
    /\ ret.op = "run"
    /\ ret.agent = "ProfileAnalyzer"
    /\ ret.value.status = "error"
    /\ calls = 1
    /\ Len(actions_history["ProfileAnalyzer"]) = 1
    /\ actions_history["ProfileAnalyzer"][1].name = "analyze_headline"
    /\ actions_history["ProfileAnalyzer"][1].status = "completed"
    /\ actions_history["ProfileAnalyzer"][1].error = "None"

\* C16: in every step other than a reset of the agent, the agent's
\* actions_history before the step is a prefix of its actions_history after
\* it: records are only appended, across repeated runs and in the step in
\* which a run ends in Error after some of its actions completed.
IsPrefix(s, t) == Len(s) <= Len(t) /\ SubSeq(t, 1, Len(s)) = s

C16_HistoryAppendOnly ==
    [][\A a \in Agents :
          \/ stack = <<>> /\ ret'.op = "reset" /\ ret'.agent = a
          \/ IsPrefix(actions_history[a], actions_history'[a])]_vars

\* A second run has ended in Error after one of its actions completed:
\* the history holds the first run's records and that action's record.
C16_Witness ==
    /\ ret.op = "run"
    /\ ret.agent = "ProfileAnalyzer"
    /\ ret.value.status = "error"
    /\ calls = 2
    /\ Len(actions_history["ProfileAnalyzer"]) = 5
    /\ actions_history["ProfileAnalyzer"][4].name = "analyze_skills"
    /\ actions_history["ProfileAnalyzer"][5].name = "analyze_headline"

\* C17: a call of think alone, on any of the five concrete agents, leaves
\* every agent's state, memory and
\* actions_history and the optimization_history as they were, and starts
\* no execute: it only returns its decision (or raises).
C17_ThinkIsPure ==
    [][ret'.op = "think" /\ ret'.agent \in ConcreteAgents =>
          UNCHANGED <<state, memory, actions_history, optimization_history,
                      llm_client, stack>>]_vars

\* think has returned a list of actions on an OptimizationAgent that holds
\* an optimization record and a memory entry, none of the actions done.
C17_Witness ==
    /\ ret.op = "think"
    /\ ret.agent = "OptimizationAgent"
    /\ ~ret.raised
    /\ Len(ret.value.actions) >= 2
    /\ Len(optimization_history) = 1
    /\ Len(memory["OptimizationAgent"]) = 1
    /\ actions_history["OptimizationAgent"] = <<>>
    /\ state["OptimizationAgent"] = "idle"

\* C18: when generate fails inside an action of a ContentGenerator run, the
\* run goes on with the template's result for that action instead of ending
\* in the error state.
C18_FallbackOnFailure ==
    [][(LlmFails /\ Top.kind = "run" /\ Top.agent = "ContentGenerator") =>
          /\ state'["ContentGenerator"] = "executing"
          /\ Len(stack') = Len(stack)
          /\ LET g == stack'[Len(stack')]
             IN  /\ g.pc = "loop"
                 /\ g.i = Top.i + 1
                 /\ Len(g.results) = Len(Top.results) + 1
                 /\ Top.action.name = "generate_headline" =>
                      g.results[Len(g.results)].content =
                        _template_headline(Get(Top.action.input_data, "user_data", EmptyMap))]_vars

\* A ContentGenerator run has ended in the error outcome that carries the
\* failure of generate.
C18_FailureEndsRun ==
    /\ llm_client
    /\ ret.op = "run"
    /\ ret.agent = "ContentGenerator"
    /\ ret.value.status = "error"
    /\ ret.value.error = GenerationFailed
    /\ state["ContentGenerator"] = "error"

\* The Orchestrator steps whose handler awaits a sub-agent's run, with the
\* sub-agent and the label the handler gives its result.
StepRuns ==
    [analyze_profile |-> [agent |-> "ProfileAnalyzer", step |-> "profile_analysis"],
     generate_content |-> [agent |-> "ContentGenerator", step |-> "content_generation"],
     build_portfolio |-> [agent |-> "PortfolioBuilder", step |-> "portfolio_building"],
     analyze_feedback |-> [agent |-> "OptimizationAgent", step |-> "feedback_analysis"]]

\* The Orchestrator steps computed by the Orchestrator itself.
LocalSteps == {"build_career_dna", "apply_optimizations"}

\* The Orchestrator's run frame is the outermost frame.
OrchestratorRuns ==
    /\ stack # <<>>
    /\ stack[1].kind = "run"
    /\ stack[1].agent = "Orchestrator"

\* In this step an action of the outermost Orchestrator run completes.
StepCompletes ==
    /\ OrchestratorRuns
    /\ Len(actions_history'["Orchestrator"]) = Len(actions_history["Orchestrator"]) + 1

CompletedStep == actions_history'["Orchestrator"][Len(actions_history'["Orchestrator"])]

Coroutines == (IF stack = <<>> THEN <<>> ELSE <<stack>>) \o suspended

\* The coroutines that are a run of agent a in progress.
RunsInFlight(a) ==
    {k \in 1..Len(Coroutines) :
        Coroutines[k][1].kind = "run" /\ Coroutines[k][1].agent = a}

\* C20: no instance has two runs in progress, and no instance reads
\* Completed or Error while a run of it is still in progress.
C20_OneRunInFlight ==
    \A a \in Agents :
        /\ Cardinality(RunsInFlight(a)) <= 1
        /\ state[a] \in {"completed", "error"} => RunsInFlight(a) = {}

\* Two runs only were started on the ContentGenerator, the second while
\* the first waited for generate; both have returned, and a record of the
\* second run lies between two records of the first.
C20_Interleaved ==
    LET h == actions_history["ContentGenerator"]
    IN  /\ calls = 2
        /\ stack = <<>>
        /\ suspended = <<>>
        /\ state["ContentGenerator"] = "completed"
        /\ ret.op = "run"
        /\ ret.value.status = "success"
        /\ \E i, j, k \in 1..Len(h) :
              /\ i < j
              /\ j < k
              /\ h[i].input_data.user_data = Get(ret.arg, "user_data", EmptyMap)
              /\ h[j].input_data.user_data # Get(ret.arg, "user_data", EmptyMap)
              /\ h[k].input_data.user_data = Get(ret.arg, "user_data", EmptyMap)

\* C21: in a run of the Orchestrator every action of the list that think
\* returned carries the run's own input, the action handed to a handler has
\* that input, and the input a handler passes to its sub-agent is made from
\* it alone: build_portfolio passes the career_dna of the run's input, not
\* the one an earlier step built.
C21_StepsGetRunInput ==
    \A k \in 1..Len(stack) :
       LET f == stack[k]
       IN  (f.kind = "run" /\ f.agent = "Orchestrator" /\ f.pc # "think") =>
              /\ \A i \in 1..Len(f.actions) : f.actions[i].input = f.input_data
              /\ f.pc \in {"handler", "await_run"} => f.action.input_data = f.input_data
              /\ (f.pc = "await_run" /\ f.action.name = "build_portfolio") =>
                    /\ stack[k + 1].input_data.career_dna =
                         Get(f.input_data, "career_dna", EmptyMap)
                    /\ stack[k + 1].input_data.user_data =
                         Get(f.input_data, "user_data", EmptyMap)

\* The Orchestrator is about to run build_portfolio after analyze_profile,
\* build_career_dna and generate_content have left their results.
C21_Witness ==
    /\ stack # <<>>
    /\ stack[1].agent = "Orchestrator"
    /\ stack[1].pc = "handler"
    /\ stack[1].action.name = "build_portfolio"
    /\ Len(stack[1].results) = 3
    /\ stack[1].results[1].result.status = "success"
    /\ stack[1].results[2].step = "career_dna"
    /\ stack[1].action.input_data = [request_type |-> "full_optimization"]

\* C22: when every think, handler and generate call comes back, a run in
\* progress eventually returns to its caller, its agent Completed or Error
\* and no agent left Thinking or Executing; and while a run
\* waits for generate its agent is Executing and nothing but the return or
\* the fault of generate changes the stack, the states, the histories or
\* what the caller got: there is no timeout and no cancellation.
C22_RunTerminates ==
    /\ (stack # <<>>) ~>
          /\ stack = <<>>
          /\ ret.op = "run"
          /\ state[ret.agent] \in {"completed", "error"}
          /\ \A a \in Agents : state[a] \in {"idle", "completed", "error"}
    /\ [][(stack # <<>> /\ Top.pc = "await_llm") =>
             /\ state[Top.agent] = "executing"
             /\ ~(LlmReturns \/ LlmFails) =>
                   UNCHANGED <<stack, state, ret, actions_history, optimization_history>>]_vars

\* A ContentGenerator run that waited for generate twice has returned.
C22_Witness ==
    /\ llm_client
    /\ stack = <<>>
    /\ ret.op = "run"
    /\ ret.agent = "ContentGenerator"
    /\ ret.value.status = "success"
    /\ Len(ret.value.results) = 3
    /\ ret.value.results[1].content = GeneratedText
    /\ ret.value.results[2].content = GeneratedText
    /\ state["ContentGenerator"] = "completed"

\* C23: OptimizationAgent.think asks for optimize_headline iff
\* profile_views_trend < 0, for reorder_skills iff skill_click_rate < 5%
\* and for update_portfolio iff portfolio_bounce_rate > 70%, an absent
\* field counting as 0, and it lists them in that order.
C23_Thresholds ==
    (ret.op = "think" /\ ret.agent = "OptimizationAgent" /\ ~ret.raised) =>
        LET feedback == Get(ret.arg, "feedback", EmptyMap)
            requested == [i \in 1..Len(ret.value.actions) |-> ret.value.actions[i].name]
        IN  requested =
              (IF Get(feedback, "profile_views_trend", 0) < 0
                 THEN <<"optimize_headline">> ELSE <<>>)
              \o (IF Get(feedback, "skill_click_rate", 0) < 5
                    THEN <<"reorder_skills">> ELSE <<>>)
              \o (IF Get(feedback, "portfolio_bounce_rate", 0) > 70
                    THEN <<"update_portfolio">> ELSE <<>>)

\* think was given a falling trend and the two rates at their thresholds,
\* and asked for optimize_headline alone.
C23_Witness ==
    /\ ret.op = "think"
    /\ ret.agent = "OptimizationAgent"
    /\ ~ret.raised
    /\ ret.arg = [feedback |-> [profile_views_trend |-> -1, skill_click_rate |-> 5,
                                portfolio_bounce_rate |-> 70]]
    /\ Len(ret.value.actions) = 1
    /\ ret.value.actions[1].name = "optimize_headline"

\* C24: an agent's memory changes in two ways only: add_to_memory on it puts
\* the one message at the end, keeping the entries before it in their order
\* and changing no state and no history and no other agent's memory, and
\* reset on it empties it.  get_memory_context changes no field, and no step
\* of a run or of an execute changes any memory.
C24_MemoryAppendOnly ==
    [][/\ \A a \in Agents :
             \/ memory'[a] = memory[a]
             \/ /\ stack = <<>>
                /\ ret'.op = "add_to_memory"
                /\ ret'.agent = a
                /\ memory'[a] = Append(memory[a], ret'.arg)
                /\ \A b \in Agents \ {a} : memory'[b] = memory[b]
                /\ UNCHANGED <<state, actions_history, optimization_history, stack>>
             \/ /\ stack = <<>>
                /\ ret'.op = "reset"
                /\ ret'.agent = a
                /\ memory'[a] = <<>>
       /\ ret'.op = "add_to_memory" =>
             memory'[ret'.agent] = Append(memory[ret'.agent], ret'.arg)
       /\ ret'.op = "get_memory_context" =>
             UNCHANGED <<state, memory, actions_history, optimization_history, stack>>
       /\ (stack # <<>> \/ stack' # <<>>) => UNCHANGED memory]_vars

\* Two different messages were added, and lie in memory in that order.
C24_Witness ==
    /\ ret.op = "add_to_memory"
    /\ Len(memory[ret.agent]) = 2
    /\ memory[ret.agent][1] # memory[ret.agent][2]
    /\ memory[ret.agent][2] = ret.arg
    /\ ret.arg = AgentMessage("agent", "hi")

\* The agents a step belongs to: those with a frame on the stack before or
\* after it, or the one a call that returns at once was made on.
Involved ==
    {stack[k].agent : k \in 1..Len(stack)} \cup {stack'[k].agent : k \in 1..Len(stack')}
    \cup (IF stack = <<>> /\ stack' = <<>> THEN {ret'.agent} ELSE {})

\* C25: a step changes the state, memory or actions_history only of the
\* agent it is called on, and, inside an Orchestrator step, of the one
\* sub-agent whose run that step awaits; reset changes no agent but the one
\* it is called on, the Orchestrator's reset included.
C25_NoSharedState ==
    [][/\ \A a \in Agents :
             (state'[a] # state[a] \/ memory'[a] # memory[a]
                \/ actions_history'[a] # actions_history[a]) => a \in Involved
       /\ Involved \subseteq {target} \cup (IF target = "Orchestrator" THEN SubAgents ELSE {})
       /\ Len(stack) <= 2
       /\ Len(stack) = 2 =>
             /\ stack[1].agent = "Orchestrator"
             /\ stack[2].agent \in SubAgents
             /\ Involved = {"Orchestrator", stack[2].agent}
       /\ ret'.op \in {"reset", "add_to_memory", "get_memory_context"} =>
             \A b \in Agents \ {ret'.agent} :
                 /\ state'[b] = state[b]
                 /\ memory'[b] = memory[b]
                 /\ actions_history'[b] = actions_history[b]]_vars

\* The Orchestrator ran twice with a reset in between: its own history
\* holds the second run only, the ProfileAnalyzer's holds both.
C25_Witness ==
    /\ ret.op = "run"
    /\ ret.agent = "Orchestrator"
    /\ calls = 2
    /\ Len(actions_history["Orchestrator"]) = 2
    /\ Len(actions_history["ProfileAnalyzer"]) = 8
    /\ state["ProfileAnalyzer"] = "completed"

\* The action names think is to choose for an analysis_type.
AnalysisFor(analysis_type) ==
    CASE analysis_type = "full" ->
           <<"analyze_headline", "analyze_about", "analyze_experience", "analyze_skills">>
      [] analysis_type \in {"headline", "about", "experience", "skills"} ->
           <<"analyze_" \o analysis_type>>
      [] OTHER -> <<>>

\* C26: once think has returned in a ProfileAnalyzer run, the action list
\* is the four analyses in order for full or no analysis_type, the one
\* matching analysis for headline, about, experience or skills, and empty
\* for any other value; and a run with such another value returns success
\* with no results and leaves the state Completed.
C26_AnalysisScope ==
    /\ \A k \in 1..Len(stack) :
          LET f == stack[k]
          IN  (f.kind = "run" /\ f.agent = "ProfileAnalyzer" /\ f.pc # "think") =>
                 [i \in 1..Len(f.actions) |-> f.actions[i].name] =
                    AnalysisFor(Get(f.input_data, "analysis_type", "full"))
    /\ (ret.op = "run" /\ ret.agent = "ProfileAnalyzer" /\ IsMapping(ret.arg)
          /\ AnalysisFor(Get(ret.arg, "analysis_type", "full")) = <<>>) =>
             /\ ret.value.status = "success"
             /\ ret.value.results = <<>>
             /\ ret.value.thought.actions = <<>>
             /\ state["ProfileAnalyzer"] = "completed"
             /\ actions_history["ProfileAnalyzer"] = <<>>

\* A run asked for the analysis of skills alone is at its one action.
C26_Witness ==
    /\ stack # <<>>
    /\ Top.agent = "ProfileAnalyzer"
    /\ Top.pc = "handler"
    /\ Top.input_data = [analysis_type |-> "skills", profile_data |-> SampleProfile]
    /\ Len(Top.actions) = 1
    /\ Top.action.name = "analyze_skills"

\* C27: every score a handler of the ProfileAnalyzer returns is an integer
\* from 0 to 100, whatever the number of words, positions, descriptions,
\* metrics, bullets or skills in its input.
C27_ScoreBounded ==
    (ret.op = "handler" /\ ~ret.raised) =>
        /\ ret.value.score \in Int
        /\ ret.value.score >= 0
        /\ ret.value.score <= 100

\* Three positions, each described with a figure and three bullets: the
\* parts of the score add up to 110 and the score returned is 100.
C27_Witness ==
    /\ ret.op = "handler"
    /\ ~ret.raised
    /\ ret.arg.name = "analyze_experience"
    /\ ret.value.patterns.total_positions = 3
    /\ ret.value.patterns.has_descriptions = 3
    /\ ret.value.patterns.has_metrics = 3
    /\ ret.value.score = 100

\* The names of the steps of the Orchestrator's workflows.
WorkflowSteps ==
    UNION {{workflows[w][i] : i \in 1..Len(workflows[w])} : w \in DOMAIN workflows}

\* C28: in a run of any of the five concrete agents every action name in
\* the list think returned is a key of the agent's dispatch table, no
\* result and no action record of such an agent is the unknown-action
\* payload, and the steps of the four workflows are the six names the
\* Orchestrator's table holds.
C28_ThinkNamesDispatched ==
    /\ \A k \in 1..Len(stack) :
          LET f == stack[k]
          IN  (f.kind = "run" /\ f.agent \in ConcreteAgents /\ f.pc # "think") =>
                 /\ \A i \in 1..Len(f.actions) : f.actions[i].name \in action_map(f.agent)
                 /\ \A i \in 1..Len(f.results) : "error" \notin DOMAIN f.results[i]
    /\ \A a \in ConcreteAgents :
          \A i \in 1..Len(actions_history[a]) :
              /\ actions_history[a][i].name \in action_map(a)
              /\ "error" \notin DOMAIN actions_history[a][i].output_data
    /\ WorkflowSteps = OrchestratorAgent_action_map
    /\ Cardinality(WorkflowSteps) = 6

\* The optimize workflow has run to its end: analyze_feedback and
\* apply_optimizations were both dispatched to their handlers.
C28_Witness ==
    /\ ret.op = "run"
    /\ ret.agent = "Orchestrator"
    /\ ret.arg = [request_type |-> "optimize"]
    /\ ret.value.status = "success"
    /\ Len(ret.value.results) = 2
    /\ ret.value.results[1].step = "feedback_analysis"
    /\ ret.value.results[2].step = "apply_optimizations"
    /\ Len(actions_history["OptimizationAgent"]) >= 1

\* C29: with one run in flight, an agent whose run is at think is Thinking,
\* an agent whose run is in its loop, in a handler or waiting inside one is
\* Executing, and while a sub-agent's run is in progress inside an
\* Orchestrator step the Orchestrator is Executing.
C29_StateFollowsRun ==
    \A k \in 1..Len(stack) :
       LET f == stack[k]
       IN  f.kind = "run" =>
              /\ f.pc = "think" => state[f.agent] = "thinking"
              /\ f.pc \in {"loop", "handler", "await_llm", "await_run"} =>
                    state[f.agent] = "executing"
              /\ k > 1 =>
                    /\ stack[1].agent = "Orchestrator"
                    /\ stack[1].pc = "await_run"
                    /\ state["Orchestrator"] = "executing"
                    /\ state[f.agent] \in {"thinking", "executing"}

\* The ContentGenerator waits for generate inside the Orchestrator's
\* generate_content step, after the ProfileAnalyzer's run has ended.
C29_Witness ==
    /\ Len(stack) = 2
    /\ stack[1].agent = "Orchestrator"
    /\ stack[2].agent = "ContentGenerator"
    /\ stack[2].pc = "await_llm"
    /\ state["ContentGenerator"] = "executing"
    /\ state["Orchestrator"] = "executing"
    /\ state["ProfileAnalyzer"] \in {"completed", "error"}

\* The case of C30: the trend is negative, current_content has no headline,
\* and search appearances of at least 10 are not given or trending keywords
\* are.
HeadlineAbsent(input_data) ==
    LET feedback == Get(input_data, "feedback", EmptyMap)
        current_content == Get(input_data, "current_content", EmptyMap)
        metrics == Get(feedback, "headline_metrics", EmptyMap)
        trends == Get(Get(input_data, "market_trends", EmptyMap), "headline_trends", EmptyMap)
    IN  /\ IsMapping(input_data)
        /\ IsMapping(feedback)
        /\ Get(feedback, "profile_views_trend", 0) < 0
        /\ "headline" \notin DOMAIN current_content
        /\ \/ Get(metrics, "search_appearances", 0) < 10
           \/ Get(trends, "keywords", <<>>) # <<>>

\* C30: in such a run of the OptimizationAgent no step adds to
\* actions_history or optimization_history, the first action,
\* optimize_headline, is the only one a handler is entered for, and the
\* run ends with the error outcome of the fault on the absent headline and
\* the state Error.
C30_AbsentHeadlineFaults ==
    [][(stack # <<>> /\ stack[1].kind = "run" /\ stack[1].agent = "OptimizationAgent"
          /\ HeadlineAbsent(stack[1].input_data)) =>
            /\ UNCHANGED <<actions_history, optimization_history>>
            /\ stack[1].pc = "handler" =>
                  /\ stack[1].i = 1
                  /\ stack[1].action.name = "optimize_headline"
                  /\ Len(stack[1].actions) >= 2
                  /\ stack' = <<>>
            /\ stack' = <<>> =>
                  /\ stack[1].pc = "handler"
                  /\ ret'.op = "run"
                  /\ ret'.value.status = "error"
                  /\ ret'.value.error \in {NoLower, NoReplace}
                  /\ state'["OptimizationAgent"] = "error"]_vars

\* Such a run has ended: keywords were given with 50 search appearances,
\* the outcome is the error and no history has an entry.
C30_Witness ==
    /\ ret.op = "run"
    /\ ret.agent = "OptimizationAgent"
    /\ HeadlineAbsent(ret.arg)
    /\ Get(Get(ret.arg, "feedback", EmptyMap), "headline_metrics", EmptyMap)
          = [search_appearances |-> 50]
    /\ ret.value.status = "error"
    /\ ret.value.error = NoLower
    /\ state["OptimizationAgent"] = "error"
    /\ actions_history["OptimizationAgent"] = <<>>
    /\ optimization_history = <<>>

====
